---- MODULE Spec2Model ----
(***************************************************************************)
(* LofiLoop: the real-time scheduling core.                                *)
(*                                                                         *)
(*   scheduler.ts    (src/unnamed/part_004, lines 1-205)   live scheduler  *)
(*   beatExporter.ts (src/unnamed/part_004, lines 207-801) offline bounce  *)
(*   trackEngine.ts  (src/unnamed/part_003)                multi-track     *)
(*   professionalExporter.ts (src/unnamed/part_002)        offline bounce  *)
(*                                                                         *)
(* Time is counted in milliseconds: the audio clock (AudioContext          *)
(* .currentTime, seconds in the source) and the wall clock that drives     *)
(* setInterval / setTimeout are the one variable `now`.  Volumes and       *)
(* velocities are percentages (0.8 in the source is 80 here), so products  *)
(* of two of them are in units of 1/10000.                                 *)
(***************************************************************************)
EXTENDS Integers, Sequences, FiniteSets, TLC

VARIABLES
    page,               \* the Home page that is mounted: "workstation" or "beatmaker"
    now,                \* audio clock = wall clock, ms
    \* ---- scheduler.ts module state (part_004:38-44)
    schedulerTimer,     \* handle of the interval stored by startScheduler, 0 = null
    nextStepTime,
    currentStep,
    lastScheduledStep,
    onStepChange,       \* TRUE when a listener is registered
    \* ---- trackEngine.ts module state (part_003:87-91)
    schedulerInterval,  \* handle of the interval stored by startPlayback, 0 = null
    engineCurrentStep,  \* currentStep of trackEngine.ts
    engineNextStepTime, \* nextStepTime of trackEngine.ts
    isPlaying,
    stepCallback,       \* TRUE when a listener is registered
    \* ---- React state of the two components
    workstation,        \* LoopWorkstation: isPlaying, bpm, swing, patterns, settings
    beatMaker,          \* BeatMaker: isPlaying, project
    \* ---- audioContext.ts
    audioContext,       \* [state, resuming]: AudioContext.state, a resume() pending
    edits,              \* number of edit handlers run so far (history)
    \* ---- host timers (window.setInterval / setTimeout)
    intervals,          \* live setInterval timers: [id, c] with c the closure
    timeouts,           \* pending setTimeout notifications, in creation order
    nextHandle,         \* next timer handle the host hands out
    \* ---- the registered listener (setCurrentStep of the mounted page)
    uiStep,             \* last value the listener received
    \* ---- inputs and result of one scheduleStep call on its own
    mixSettings,        \* the track settings handed to scheduleStep
    mixPlayed,          \* the tracks it played, "none" before the call
    \* ---- the offline exporters, one call each
    exportJob,          \* an export to WAV: its phase, loop and progress reports
    wav,                \* audioBufferToWav: the rendered buffer and the bytes written
    midi,               \* createDrumTrack: the pattern and the track bytes written
    \* ---- observation of the run (history, not read by the program)
    count,              \* dispatches since the last start/stop call
    tickLog,            \* the dispatches of the most recent tick, in order
    prev,               \* the dispatch before those of tickLog (<<>> if none)
    startedAt,          \* clock at the last start call
    lastTickAt,         \* clock at the last start or tick
    gapOk,              \* every start->tick and tick->tick gap so far < LOOKAHEAD
    stopped,            \* TRUE from a stop call until the next start
    stopEmitted,        \* TRUE when that stop delivered the sentinel -1
    sentinels,          \* sentinel deliveries since the last start, counted up to 2
    lastDelivery,       \* the last listener call: [kind, s], s the step it was made for
    starts,             \* number of start calls that took effect
    positionAtStop,     \* the step index the last stop found, -1 before any stop
    startIgnored        \* TRUE once startPlayback has returned at its guard

moduleVars == <<schedulerTimer, nextStepTime, currentStep, lastScheduledStep,
                onStepChange>>

engineVars == <<schedulerInterval, engineCurrentStep, engineNextStepTime,
                isPlaying, stepCallback>>

hostVars == <<intervals, timeouts, nextHandle>>

mixVars == <<mixSettings, mixPlayed>>

exportVars == <<exportJob, wav, midi>>

offlineVars == <<mixVars, exportVars>>

historyVars == <<count, tickLog, prev, startedAt, lastTickAt, gapOk, stopped,
                 stopEmitted, sentinels, lastDelivery, starts,
                   positionAtStop, startIgnored>>

componentVars == <<workstation, beatMaker, audioContext, edits>>

vars == <<page, now, moduleVars, engineVars, componentVars, hostVars, uiStep,
          offlineVars, historyVars>>

\* what an operation of scheduler.ts, and one of trackEngine.ts, cannot reach
outsideScheduler == <<page, engineVars, componentVars, offlineVars>>
outsideEngine == <<page, moduleVars, componentVars, offlineVars>>

(***************************************************************************)
(* Bounds of the model                                                     *)
(***************************************************************************)
MaxTime == 300          \* Spec: the clock stops advancing here (ms)
MaxStarts == 2          \* Spec: startScheduler calls in one behaviour
MaxRestartTime == 25    \* Spec: startScheduler is not called after this instant (ms)
MaxWrapTime == 2400     \* SpecLive: the clock stops advancing here (ms)
MaxTickGap == 100       \* an interval timer is at most this late (ms)
MaxTimeoutLate == 25    \* a setTimeout callback runs at most this late (ms)
MaxEdits == 3           \* SpecProject: edit handlers run in one behaviour
MaxPlayEdits == 2       \* SpecBeatMaker, SpecWorkstation: edit handlers run in one behaviour
MaxPlayTime == 150      \* SpecBeatMaker, SpecApi: the clock stops advancing here (ms)
MaxWorkstationTime == 50 \* SpecWorkstation: the clock stops advancing here (ms)
MaxPlayStarts == 4      \* SpecWorkstation: startScheduler calls in one behaviour

(***************************************************************************)
(* Program constants                                                       *)
(***************************************************************************)
LOOKAHEAD == 100            \* part_004:35, 0.1 s
SCHEDULE_INTERVAL == 25     \* part_004:36, ms
LEAD_IN == 50               \* part_004:120, 0.05 s
STEPS == 16                 \* part_004:156
MS_PER_MINUTE == 60000      \* the 60 of "60 / bpm / 4", in ms

StepIndex == 0 .. (STEPS - 1)
NoNote == "null"

DrumTypes == <<"kick", "snare", "hat", "clap">>
TrackNames == {"kick", "snare", "hat", "clap", "synth"}

\* swing percentages whose offset is a whole number of ms at the tempi used
SwingSet == {0, 40}

Max(a, b) == IF a >= b THEN a ELSE b

Min(a, b) == IF a <= b THEN a ELSE b

\* const stepDuration = 60 / bpm / 4
StepDuration(bpm) == (MS_PER_MINUTE \div bpm) \div 4

Hits(S) == [i \in StepIndex |-> i \in S]

\* createEmptyDrumPattern / createEmptySynthPattern
EmptyDrumPattern ==
    [kick |-> Hits({}), snare |-> Hits({}), hat |-> Hits({}), clap |-> Hits({})]

EmptySynthPattern == [notes |-> [i \in StepIndex |-> NoNote]]

\* createDefaultTrackSettings
DefaultTrackSettings ==
    [kick  |-> [muted |-> FALSE, solo |-> FALSE, volume |-> 80],
     snare |-> [muted |-> FALSE, solo |-> FALSE, volume |-> 60],
     hat   |-> [muted |-> FALSE, solo |-> FALSE, volume |-> 40],
     clap  |-> [muted |-> FALSE, solo |-> FALSE, volume |-> 50],
     synth |-> [muted |-> FALSE, solo |-> FALSE, volume |-> 50]]

\* defaultSynthParams: only the volume reaches the scheduling decisions
DefaultSynthParams == [volume |-> 50]

(***************************************************************************)
(* scheduler.ts: pure helpers                                              *)
(***************************************************************************)
GetSwingOffsetEveryStep(step, swing, stepDuration) ==
    (swing * stepDuration) \div 200

\* the offset without the factor 0.5 and doubled: more than a step at 60
GetSwingOffsetTwoSteps(step, swing, stepDuration) ==
    IF step % 2 = 1 THEN (swing * stepDuration * 2) \div 100 ELSE 0

\* (swing / 100) * stepDuration * 0.5 on odd steps
GetSwingOffset(step, swing, stepDuration) ==
    IF step % 2 = 1 THEN (swing * stepDuration) \div 200 ELSE 0

ShouldPlayTrackMuteFirst(trackName, trackSettings) ==
    LET settings == trackSettings[trackName]
        anySolo == \E t \in DOMAIN trackSettings : trackSettings[t].solo
    IN  IF settings.muted THEN FALSE
        ELSE IF anySolo THEN settings.solo ELSE TRUE

ShouldPlayTrack(trackName, trackSettings) ==
    LET settings == trackSettings[trackName]
        anySolo == \E t \in DOMAIN trackSettings : trackSettings[t].solo
    IN  IF anySolo THEN settings.solo ELSE ~settings.muted

\* The synthesis calls scheduleStep makes, in order: playDrum for each drum
\* type, then playSynthNote.  c is the argument bundle of startScheduler.
ScheduleStep(step, time, c) ==
    LET pattern == c.drumPatterns[c.currentPattern]
        synthPattern == c.synthPatterns[c.currentPattern]
        stepDuration == StepDuration(c.bpm)
        drum(i) == [inst |-> DrumTypes[i], time |-> time,
                    volume |-> c.trackSettings[DrumTypes[i]].volume,
                    note |-> NoNote, duration |-> 0]
        drums == SelectSeq([i \in 1 .. Len(DrumTypes) |-> drum(i)],
                           LAMBDA e : pattern[e.inst][step]
                                      /\ ShouldPlayTrack(e.inst, c.trackSettings))
        note == synthPattern.notes[step]
        synth == IF note # NoNote /\ ShouldPlayTrack("synth", c.trackSettings)
                 THEN << [inst |-> "synth", time |-> time,
                          volume |-> c.synthParams.volume * c.trackSettings.synth.volume,
                          note |-> note, duration |-> (stepDuration * 9) \div 10] >>
                 ELSE << >>
    IN  drums \o synth

NextStepIndexWrap15(step) == (step + 1) % (STEPS - 1)

\* currentStep = (currentStep + 1) % 16
NextStepIndex(step) == (step + 1) % STEPS

(***************************************************************************)
(* scheduler.ts: the interval callback of startScheduler, lines 126-158.   *)
(* st is the module state the loop reads and writes; out collects the      *)
(* dispatches of this tick.                                                *)
(***************************************************************************)
\* the tick with `if` in place of `while`: at most one step per tick
TickLoopOnce(st, c, h, currentTime) ==
    IF st.nextStepTime < currentTime + LOOKAHEAD
    THEN LET stepDuration == StepDuration(c.bpm)
             swingOffset == GetSwingOffset(st.currentStep, c.swing, stepDuration)
             scheduledTime == st.nextStepTime + swingOffset
             rec == [h |-> h, n |-> st.n + 1, step |-> st.currentStep,
                     base |-> st.nextStepTime,
                     time |-> scheduledTime, at |-> currentTime,
                     bpm |-> c.bpm, swing |-> c.swing,
                     calls |-> ScheduleStep(st.currentStep, scheduledTime, c)]
         IN  [nextStepTime |-> st.nextStepTime + stepDuration,
              currentStep |-> NextStepIndex(st.currentStep),
              lastScheduledStep |-> st.currentStep,
              n |-> st.n + 1,
              out |-> Append(st.out, rec)]
    ELSE st

RECURSIVE TickLoop(_, _, _, _)
TickLoop(st, c, h, currentTime) ==
    IF st.nextStepTime < currentTime + LOOKAHEAD
    THEN LET stepDuration == StepDuration(c.bpm)
             swingOffset == GetSwingOffset(st.currentStep, c.swing, stepDuration)
             scheduledTime == st.nextStepTime + swingOffset
             fresh == st.currentStep # st.lastScheduledStep
             rec == [h |-> h, n |-> st.n + 1, step |-> st.currentStep,
                     base |-> st.nextStepTime,
                     time |-> scheduledTime, at |-> currentTime,
                     bpm |-> c.bpm, swing |-> c.swing,
                     calls |-> ScheduleStep(st.currentStep, scheduledTime, c)]
         IN  TickLoop([nextStepTime |-> st.nextStepTime + stepDuration,
                       currentStep |-> NextStepIndex(st.currentStep),
                       lastScheduledStep |-> IF fresh THEN st.currentStep
                                             ELSE st.lastScheduledStep,
                       n |-> IF fresh THEN st.n + 1 ELSE st.n,
                       out |-> IF fresh THEN Append(st.out, rec) ELSE st.out],
                      c, h, currentTime)
    ELSE st

\* setTimeout(() => onStepChange?.(currentStep), delayMs) for one dispatch:
\* delayMs = max(0, (scheduledTime - currentTime) * 1000)
Notification(r) == [due |-> r.at + Max(0, r.time - r.at), s |-> r.step]

(***************************************************************************)
(* The argument bundles startScheduler is called with                      *)
(***************************************************************************)
BasicDrums ==
    [kick  |-> Hits({0, 8}),
     snare |-> Hits({4, 12}),
     hat   |-> Hits(StepIndex),
     clap  |-> Hits({3})]

BasicSynth == [notes |-> [i \in StepIndex |-> IF i \in {0, 5} THEN "C3" ELSE NoNote]]

KickSolo == [DefaultTrackSettings EXCEPT !.kick.solo = TRUE]

\* what startScheduler's closure keeps of its arguments
Closure(bpm, swing, trackSettings) ==
    [bpm |-> bpm, swing |-> swing,
     drumPatterns |-> [A |-> BasicDrums, B |-> EmptyDrumPattern],
     synthPatterns |-> [A |-> BasicSynth, B |-> EmptySynthPattern],
     currentPattern |-> "A",
     trackSettings |-> trackSettings,
     synthParams |-> DefaultSynthParams]

\* the calls of startScheduler the model makes
StartArgs ==
    { Closure(200, 40, DefaultTrackSettings), Closure(120, 0, KickSolo) }

WrapArgs ==
    { Closure(200, swing, DefaultTrackSettings) : swing \in SwingSet }

(***************************************************************************)
(* trackEngine.ts (part_003): the multi-track engine of the Beat Maker     *)
(***************************************************************************)
LOOKAHEAD_MS == 25              \* part_003:93, the period of the engine's timer
SCHEDULE_AHEAD_TIME == 100      \* part_003:94, 0.1 s
ENGINE_LEAD_IN == 100           \* part_003:159, 0.1 s

\* the ids of the INSTRUMENTS registry (instruments.ts)
INSTRUMENTS ==
    {"808-kick", "808-bass", "sub-bass", "trap-kick", "snare", "clap",
     "closed-hat", "open-hat", "rimshot", "crash", "pluck", "keys", "pad", "lead"}

\* a lookup that finds an instrument under every id
GetInstrumentAny(id) == TRUE

\* getInstrument(id): TRUE when the registry has the id
GetInstrument(id) == id \in INSTRUMENTS

\* the % of JavaScript: the result has the sign of the dividend
JsRem(a, b) == IF a >= 0 THEN a % b ELSE 0 - ((0 - a) % b)

\* createEmptyStep
CreateEmptyStep == [active |-> FALSE, note |-> NoNote, velocity |-> 80]

\* a 16-step row: the steps of S active with the given note and velocity
StepsOf(S, note, velocity) ==
    [i \in StepIndex |->
        IF i \in S THEN [active |-> TRUE, note |-> note, velocity |-> velocity]
        ELSE CreateEmptyStep]

\* createTrack, then updateTrack for the mixer fields
Track(instrumentId, steps, volume, muted, solo) ==
    [instrumentId |-> instrumentId, steps |-> steps, volume |-> volume,
     muted |-> muted, solo |-> solo]

Project(bpm, swing, tracks) ==
    [bpm |-> bpm, swing |-> swing, stepsPerBar |-> 16, bars |-> 1,
     tracks |-> tracks]

TotalSteps(project) == project.stepsPerBar * project.bars

\* scheduleStep, lines 106-112: the audio time of the step
TrackScheduledTime(project, step, time) ==
    LET totalSteps == TotalSteps(project)
        wrappedStep == JsRem(step, totalSteps)
        stepDuration == StepDuration(project.bpm)
        swingOffset == IF JsRem(wrappedStep, 2) = 1
                       THEN (project.swing * stepDuration) \div 200
                       ELSE 0
    IN  time + swingOffset

\* scheduleStep (part_003:100-151): the instrument.play calls it makes, in
\* track order
TrackScheduleStep(project, step, time) ==
    LET totalSteps == TotalSteps(project)
        wrappedStep == JsRem(step, totalSteps)
        stepDuration == StepDuration(project.bpm)
        scheduledTime == TrackScheduledTime(project, step, time)
        tracks == project.tracks
        hasSolo == \E i \in 1 .. Len(tracks) : tracks[i].solo
        plays(i) ==
            /\ ~tracks[i].muted
            /\ ~(hasSolo /\ ~tracks[i].solo)
            /\ wrappedStep \in DOMAIN tracks[i].steps
            /\ tracks[i].steps[wrappedStep].active
            /\ GetInstrument(tracks[i].instrumentId)
        call(i) ==
            LET stepData == tracks[i].steps[wrappedStep]
            IN  [track |-> i, instrumentId |-> tracks[i].instrumentId,
                 time |-> scheduledTime,
                 gain |-> tracks[i].volume
                          * (IF stepData.velocity = 0 THEN 80 ELSE stepData.velocity),
                 note |-> stepData.note, velocity |-> stepData.velocity,
                 duration |-> (stepDuration * 9) \div 10]
        audible == SelectSeq([i \in 1 .. Len(tracks) |-> i], plays)
    IN  [k \in 1 .. Len(audible) |-> call(audible[k])]

\* the scheduler callback of startPlayback, lines 164-182
RECURSIVE EngineLoop(_, _, _, _)
EngineLoop(st, project, h, currentTime) ==
    IF st.nextStepTime < currentTime + SCHEDULE_AHEAD_TIME
    THEN LET totalSteps == TotalSteps(project)
             stepDuration == StepDuration(project.bpm)
             rec == [h |-> h, n |-> st.n + 1, step |-> st.currentStep,
                     base |-> st.nextStepTime,
                     time |-> TrackScheduledTime(project, st.currentStep,
                                                 st.nextStepTime),
                     at |-> currentTime,
                     bpm |-> project.bpm, swing |-> project.swing,
                     calls |-> TrackScheduleStep(project, st.currentStep,
                                                 st.nextStepTime)]
         IN  EngineLoop([nextStepTime |-> st.nextStepTime + stepDuration,
                         currentStep |-> IF st.currentStep + 1 >= totalSteps
                                         THEN 0 ELSE st.currentStep + 1,
                         n |-> st.n + 1,
                         out |-> Append(st.out, rec)],
                        project, h, currentTime)
    ELSE st

\* setTimeout(() => stepCallback?.(currentStep % totalSteps), max(0, msTillStep))
\* with msTillStep = (nextStepTime - ctx.currentTime) * 1000
EngineNotification(r, project) ==
    [due |-> r.at + Max(0, r.base - r.at), s |-> r.step,
     totalSteps |-> TotalSteps(project)]

(***************************************************************************)
(* trackEngine.ts: project manipulation (part_003:203-295).  A trackId is  *)
(* the position of the track that carries it; a position outside the list *)
(* is an id no track carries.                                              *)
(***************************************************************************)
CreateEmptyStepsShort(stepCount) ==
    [i \in 0 .. (stepCount - 2) |-> CreateEmptyStep]

\* createEmptySteps(count)
CreateEmptySteps(stepCount) ==
    [i \in 0 .. (stepCount - 1) |-> CreateEmptyStep]

\* createTrack(instrumentId, stepCount)
CreateTrack(instrumentId, stepCount) ==
    Track(instrumentId, CreateEmptySteps(stepCount), 80, FALSE, FALSE)

AddTrack(project, instrumentId) ==
    [project EXCEPT
        !.tracks = Append(@, CreateTrack(instrumentId, TotalSteps(project)))]

\* tracks.filter(t => t.id !== trackId)
RemoveTrack(project, trackId) ==
    LET kept == SelectSeq([k \in 1 .. Len(project.tracks) |-> k],
                          LAMBDA k : k # trackId)
    IN  [project EXCEPT !.tracks = [j \in 1 .. Len(kept) |-> @[kept[j]]]]

DuplicateTrack(project, trackId) ==
    IF trackId \notin 1 .. Len(project.tracks) THEN project
    ELSE [project EXCEPT !.tracks = Append(@, @[trackId])]

\* { ...t, ...updates } on the addressed track
UpdateTrack(project, trackId, updates) ==
    [project EXCEPT
        !.tracks = [k \in 1 .. Len(@) |->
                       IF k = trackId
                       THEN [f \in DOMAIN @[k] |->
                                IF f \in DOMAIN updates THEN updates[f] ELSE @[k][f]]
                       ELSE @[k]]]

ToggleStepEveryTrack(project, trackId, stepIndex) ==
    [project EXCEPT
        !.tracks = [k \in 1 .. Len(@) |->
                       [@[k] EXCEPT
                           !.steps = [i \in DOMAIN @ |->
                                         IF i = stepIndex
                                         THEN [@[i] EXCEPT !.active = ~@]
                                         ELSE @[i]]]]]

\* toggleStep: i === stepIndex ? { ...s, active: !s.active } : s
ToggleStep(project, trackId, stepIndex) ==
    [project EXCEPT
        !.tracks = [k \in 1 .. Len(@) |->
                       IF k = trackId
                       THEN [@[k] EXCEPT
                                !.steps = [i \in DOMAIN @ |->
                                              IF i = stepIndex
                                              THEN [@[i] EXCEPT !.active = ~@]
                                              ELSE @[i]]]
                       ELSE @[k]]]

\* setStepNote: { ...s, note, active: note !== null }
SetStepNote(project, trackId, stepIndex, note) ==
    [project EXCEPT
        !.tracks = [k \in 1 .. Len(@) |->
                       IF k = trackId
                       THEN [@[k] EXCEPT
                                !.steps = [i \in DOMAIN @ |->
                                              IF i = stepIndex
                                              THEN [@[i] EXCEPT !.note = note,
                                                            !.active = (note # NoNote)]
                                              ELSE @[i]]]
                       ELSE @[k]]]

\* setStepVelocity: { ...s, velocity }
SetStepVelocity(project, trackId, stepIndex, velocity) ==
    [project EXCEPT
        !.tracks = [k \in 1 .. Len(@) |->
                       IF k = trackId
                       THEN [@[k] EXCEPT
                                !.steps = [i \in DOMAIN @ |->
                                              IF i = stepIndex
                                              THEN [@[i] EXCEPT !.velocity = velocity]
                                              ELSE @[i]]]
                       ELSE @[k]]]

ClearTrack(project, trackId) ==
    [project EXCEPT
        !.tracks = [k \in 1 .. Len(@) |->
                       IF k = trackId
                       THEN [@[k] EXCEPT !.steps = CreateEmptySteps(TotalSteps(project))]
                       ELSE @[k]]]

\* the projects startPlayback is called with
DemoTracks ==
    << Track("808-kick",
             [StepsOf({0, 4, 8, 12}, NoNote, 80) EXCEPT ![8].velocity = 0],
             80, FALSE, FALSE),
       Track("closed-hat", StepsOf({1, 2, 3, 6, 7, 10, 15}, NoNote, 60),
             50, FALSE, FALSE),
       Track("808-bass", StepsOf({0, 3, 11}, "C2", 100), 70, FALSE, FALSE) >>

\* the kick both muted and soloed, the bass soloed
SoloTracks ==
    [DemoTracks EXCEPT ![1].muted = TRUE, ![1].solo = TRUE, ![3].solo = TRUE]

EngineArgs ==
    { Project(200, 0, DemoTracks), Project(200, 40, DemoTracks),
      Project(200, 40, SoloTracks) }

(***************************************************************************)
(* beatExporter.ts: exportBeatToWav (part_004:211-300)                     *)
(***************************************************************************)
BEAT_EXPORT_OFFSET == 100       \* part_004:236, "+ 0.1"

ExportBaseTimeFirstLoop(loop, step, totalSteps, stepDuration) ==
    step * stepDuration + BEAT_EXPORT_OFFSET

\* globalStep * stepDuration + 0.1, globalStep = loop * totalSteps + step
ExportBaseTime(loop, step, totalSteps, stepDuration) ==
    (loop * totalSteps + step) * stepDuration + BEAT_EXPORT_OFFSET

\* The iterations of the two loops in order, each with the
\* playInstrumentOffline calls it makes, in track order.
ExportBeatToWav(project, loops) ==
    LET totalSteps == TotalSteps(project)
        stepDuration == StepDuration(project.bpm)
        tracks == project.tracks
        hasSolo == \E i \in 1 .. Len(tracks) : tracks[i].solo
        iteration(loop, step) ==
            LET baseTime == ExportBaseTime(loop, step, totalSteps, stepDuration)
                swingOffset == IF step % 2 = 1
                               THEN (project.swing * stepDuration) \div 200
                               ELSE 0
                time == baseTime + swingOffset
                plays(i) ==
                    /\ ~tracks[i].muted
                    /\ ~(hasSolo /\ ~tracks[i].solo)
                    /\ step \in DOMAIN tracks[i].steps
                    /\ tracks[i].steps[step].active
                    /\ GetInstrument(tracks[i].instrumentId)
                call(i) ==
                    LET stepData == tracks[i].steps[step]
                    IN  [track |-> i, instrumentId |-> tracks[i].instrumentId,
                         time |-> time,
                         gain |-> tracks[i].volume
                                  * (IF stepData.velocity = 0 THEN 80
                                     ELSE stepData.velocity),
                         note |-> stepData.note, velocity |-> stepData.velocity,
                         duration |-> (stepDuration * 9) \div 10]
                audible == SelectSeq([i \in 1 .. Len(tracks) |-> i], plays)
            IN  [step |-> step,
                 calls |-> [k \in 1 .. Len(audible) |-> call(audible[k])]]
    IN  [g \in 1 .. (totalSteps * loops) |->
            iteration((g - 1) \div totalSteps, (g - 1) % totalSteps)]

(***************************************************************************)
(* professionalExporter.ts: exportToWav (part_002:232-307).  The result is *)
(* the list of the iterations of the two loops, each with the synthesis    *)
(* calls it makes, in order.                                               *)
(***************************************************************************)
EXPORT_OFFSET == 100        \* part_002:257, "+ 0.1"

ExportToWav(bpm, drumPattern, synthPattern, trackSettings, synthParams, loops) ==
    LET stepsPerBar == 16
        stepDuration == StepDuration(bpm)
        iteration(loop, step) ==
            LET time == (loop * stepsPerBar + step) * stepDuration + EXPORT_OFFSET
                drum(i) == [inst |-> DrumTypes[i], time |-> time,
                            volume |-> trackSettings[DrumTypes[i]].volume,
                            note |-> NoNote, duration |-> 0]
                drums == SelectSeq([i \in 1 .. Len(DrumTypes) |-> drum(i)],
                                   LAMBDA e : drumPattern[e.inst][step]
                                              /\ ~trackSettings[e.inst].muted)
                note == synthPattern.notes[step]
                synth == IF note # NoNote /\ ~trackSettings.synth.muted
                         THEN << [inst |-> "synth", time |-> time,
                                  volume |-> synthParams.volume * trackSettings.synth.volume,
                                  note |-> note,
                                  duration |-> (stepDuration * 9) \div 10] >>
                         ELSE << >>
            IN  drums \o synth
    IN  [g \in 1 .. (stepsPerBar * loops) |->
            iteration((g - 1) \div stepsPerBar, (g - 1) % stepsPerBar)]

(***************************************************************************)
(* scheduler.ts: operations                                                *)
(***************************************************************************)
\* setOnStepChange (part_004:46-48)
SetOnStepChange ==
    /\ ~onStepChange
    /\ onStepChange' = TRUE
    /\ UNCHANGED <<now, schedulerTimer, nextStepTime, currentStep,
                   lastScheduledStep, intervals, timeouts, nextHandle, uiStep,
                   count, tickLog, prev, startedAt, lastTickAt, gapOk, stopped,
                   stopEmitted, sentinels, lastDelivery, starts,
                   positionAtStop, startIgnored>>
    /\ UNCHANGED outsideScheduler

(***************************************************************************)
(* audioContext.ts                                                         *)
(***************************************************************************)
\* resumeAudioContext (audioContext.ts:11-16) up to its await: the resume
\* is requested, the promise is not awaited by the callers
ResumeAudioContext ==
    IF audioContext.state = "suspended"
    THEN [audioContext EXCEPT !.resuming = TRUE]
    ELSE audioContext

\* the promise of ctx.resume() settles: the context runs
ResumeCompletes ==
    /\ audioContext.resuming
    /\ audioContext' = [state |-> "running", resuming |-> FALSE]
    /\ UNCHANGED <<page, now, moduleVars, engineVars, workstation, beatMaker,
                   edits, hostVars, uiStep, offlineVars, historyVars>>

\* a start that resumes: it installs the interval and keeps the position and
\* the time of the next step where the last playback left them
StartSchedulerInPlace(c) ==
    /\ intervals' = intervals \cup {[id |-> nextHandle, c |-> c]}
    /\ schedulerTimer' = nextHandle
    /\ nextHandle' = nextHandle + 1
    /\ starts' = starts + 1
    /\ count' = 0
    /\ tickLog' = << >>
    /\ prev' = << >>
    /\ startedAt' = now
    /\ lastTickAt' = now
    /\ gapOk' = TRUE
    /\ stopped' = FALSE
    /\ stopEmitted' = FALSE
    /\ sentinels' = 0
    /\ UNCHANGED <<now, nextStepTime, currentStep, lastScheduledStep,
                   onStepChange, timeouts, uiStep, lastDelivery, positionAtStop, startIgnored>>
    /\ audioContext' = ResumeAudioContext
    /\ UNCHANGED <<page, engineVars, workstation, beatMaker, edits, offlineVars>>

\* startScheduler (part_004:109-159): no guard on a timer already running,
\* the resume it requests is not awaited
StartScheduler(c) ==
    /\ nextStepTime' = now + LEAD_IN
    /\ currentStep' = 0
    /\ lastScheduledStep' = -1
    /\ intervals' = intervals \cup {[id |-> nextHandle, c |-> c]}
    /\ schedulerTimer' = nextHandle
    /\ nextHandle' = nextHandle + 1
    /\ starts' = starts + 1
    /\ count' = 0
    /\ tickLog' = << >>
    /\ prev' = << >>
    /\ startedAt' = now
    /\ lastTickAt' = now
    /\ gapOk' = TRUE
    /\ stopped' = FALSE
    /\ stopEmitted' = FALSE
    /\ sentinels' = 0
    /\ UNCHANGED <<now, onStepChange, timeouts, uiStep, lastDelivery,
                   positionAtStop, startIgnored>>
    /\ audioContext' = ResumeAudioContext
    /\ UNCHANGED <<page, engineVars, workstation, beatMaker, edits, offlineVars>>

\* one run of the interval callback of timer t (part_004:126-158)
Tick(t) ==
    LET st == TickLoop([nextStepTime |-> nextStepTime, currentStep |-> currentStep,
                        lastScheduledStep |-> lastScheduledStep,
                        n |-> count, out |-> << >>],
                       t.c, t.id, now)
    IN  /\ nextStepTime' = st.nextStepTime
        /\ currentStep' = st.currentStep
        /\ lastScheduledStep' = st.lastScheduledStep
        /\ timeouts' = IF onStepChange
                       THEN timeouts \o [i \in 1 .. Len(st.out) |-> Notification(st.out[i])]
                       ELSE timeouts
        /\ count' = st.n
        /\ tickLog' = st.out
        /\ prev' = IF tickLog # << >> THEN << tickLog[Len(tickLog)] >> ELSE prev
        /\ gapOk' = (gapOk /\ now - lastTickAt < LOOKAHEAD)
        /\ lastTickAt' = now
        /\ UNCHANGED <<now, schedulerTimer, onStepChange, intervals, nextHandle,
                       uiStep, startedAt, stopped, stopEmitted, sentinels,
                       lastDelivery, starts,
                   positionAtStop, startIgnored>>
        /\ UNCHANGED outsideScheduler

\* stopScheduler (part_004:161-171)
StopScheduler ==
    /\ intervals' = IF schedulerTimer # 0
                    THEN {t \in intervals : t.id # schedulerTimer}
                    ELSE intervals
    /\ schedulerTimer' = 0
    /\ currentStep' = 0
    /\ lastScheduledStep' = -1
    /\ uiStep' = IF onStepChange THEN -1 ELSE uiStep
    /\ lastDelivery' = IF onStepChange
                       THEN [kind |-> "stop", s |-> -1]
                       ELSE lastDelivery
    /\ stopped' = TRUE
    /\ stopEmitted' = onStepChange
    /\ sentinels' = IF onStepChange /\ sentinels < 2 THEN sentinels + 1
                    ELSE sentinels
    /\ count' = 0
    /\ tickLog' = << >>
    /\ prev' = << >>
    /\ positionAtStop' = currentStep
    /\ UNCHANGED startIgnored
    /\ UNCHANGED <<now, nextStepTime, onStepChange, timeouts, nextHandle,
                   startedAt, lastTickAt, gapOk, starts>>
    /\ UNCHANGED outsideScheduler

\* the index of the pending notification the host runs next: the earliest
\* due, the earliest created among equals
NextTimeout ==
    CHOOSE i \in 1 .. Len(timeouts) :
        \A j \in 1 .. Len(timeouts) :
            \/ timeouts[i].due < timeouts[j].due
            \/ (timeouts[i].due = timeouts[j].due /\ i <= j)

Without(s, i) == [j \in 1 .. (Len(s) - 1) |-> IF j < i THEN s[j] ELSE s[j + 1]]

\* the setTimeout callback of part_004:150: () => onStepChange?.(currentStep)
FireTimeout ==
    /\ timeouts # << >>
    /\ timeouts[NextTimeout].due <= now
    /\ uiStep' = currentStep
    /\ lastDelivery' = [kind |-> "timeout", s |-> timeouts[NextTimeout].s]
    /\ timeouts' = Without(timeouts, NextTimeout)
    /\ UNCHANGED <<now, schedulerTimer, nextStepTime, currentStep,
                   lastScheduledStep, onStepChange, intervals, nextHandle,
                   count, tickLog, prev, startedAt, lastTickAt, gapOk, stopped,
                   stopEmitted, sentinels, starts,
                   positionAtStop, startIgnored>>
    /\ UNCHANGED outsideScheduler

\* The clocks move on by one nominal timer period; a timer that does not
\* tick at an instant is late, one that ticks twice is early.  Only clock
\* differences reach the program, so the time during which no timer and no
\* notification is live is not counted.  The clock of a suspended audio
\* context stands still: the time spent suspended is not counted either.
Advance ==
    /\ audioContext.state = "running"
    /\ (intervals # {} \/ timeouts # << >>)
    /\ intervals # {} => now + SCHEDULE_INTERVAL - lastTickAt <= MaxTickGap
    /\ \A i \in 1 .. Len(timeouts) :
           now + SCHEDULE_INTERVAL <= timeouts[i].due + MaxTimeoutLate
    /\ now' = now + SCHEDULE_INTERVAL
    /\ UNCHANGED <<page, moduleVars, engineVars, componentVars, hostVars,
                   uiStep, offlineVars, historyVars>>

(***************************************************************************)
(* trackEngine.ts: operations                                              *)
(***************************************************************************)
\* setOnStepCallback (part_003:96-98)
SetOnStepCallback ==
    /\ ~stepCallback
    /\ stepCallback' = TRUE
    /\ UNCHANGED <<now, schedulerInterval, engineCurrentStep, engineNextStepTime,
                   isPlaying, hostVars, uiStep, historyVars>>
    /\ UNCHANGED outsideEngine

\* a start without the guard on isPlaying: it installs a second interval
StartPlaybackUnguarded(project) ==
    /\ isPlaying' = TRUE
    /\ engineCurrentStep' = 0
    /\ engineNextStepTime' = now + ENGINE_LEAD_IN
    /\ intervals' = intervals \cup {[id |-> nextHandle, c |-> project]}
    /\ schedulerInterval' = nextHandle
    /\ nextHandle' = nextHandle + 1
    /\ starts' = starts + 1
    /\ count' = 0
    /\ tickLog' = << >>
    /\ prev' = << >>
    /\ startedAt' = now
    /\ lastTickAt' = now
    /\ gapOk' = TRUE
    /\ stopped' = FALSE
    /\ stopEmitted' = FALSE
    /\ sentinels' = 0
    /\ UNCHANGED <<now, stepCallback, timeouts, uiStep, lastDelivery,
                   positionAtStop, startIgnored>>
    /\ UNCHANGED outsideEngine

\* startPlayback (part_003:153-185)
StartPlayback(project) ==
    IF isPlaying
    THEN /\ startIgnored' = TRUE
         /\ UNCHANGED <<page, now, moduleVars, engineVars, componentVars,
                        hostVars, uiStep, offlineVars, count, tickLog, prev,
                        startedAt, lastTickAt, gapOk, stopped, stopEmitted,
                        sentinels, lastDelivery, starts, positionAtStop>>
    ELSE /\ isPlaying' = TRUE
         /\ engineCurrentStep' = 0
         /\ engineNextStepTime' = now + ENGINE_LEAD_IN
         /\ intervals' = intervals \cup {[id |-> nextHandle, c |-> project]}
         /\ schedulerInterval' = nextHandle
         /\ nextHandle' = nextHandle + 1
         /\ starts' = starts + 1
         /\ count' = 0
         /\ tickLog' = << >>
         /\ prev' = << >>
         /\ startedAt' = now
         /\ lastTickAt' = now
         /\ gapOk' = TRUE
         /\ stopped' = FALSE
         /\ stopEmitted' = FALSE
         /\ sentinels' = 0
         /\ UNCHANGED <<now, stepCallback, timeouts, uiStep, lastDelivery,
                        positionAtStop, startIgnored>>
         /\ UNCHANGED outsideEngine

\* one run of the scheduler callback of timer t (part_003:164-182)
EngineTick(t) ==
    LET st == EngineLoop([nextStepTime |-> engineNextStepTime,
                          currentStep |-> engineCurrentStep,
                          n |-> count, out |-> << >>],
                         t.c, t.id, now)
    IN  /\ engineNextStepTime' = st.nextStepTime
        /\ engineCurrentStep' = st.currentStep
        /\ timeouts' = IF stepCallback
                       THEN timeouts \o [i \in 1 .. Len(st.out) |->
                                            EngineNotification(st.out[i], t.c)]
                       ELSE timeouts
        /\ count' = st.n
        /\ tickLog' = st.out
        /\ prev' = IF tickLog # << >> THEN << tickLog[Len(tickLog)] >> ELSE prev
        /\ gapOk' = (gapOk /\ now - lastTickAt < SCHEDULE_AHEAD_TIME)
        /\ lastTickAt' = now
        /\ UNCHANGED <<now, schedulerInterval, isPlaying, stepCallback, intervals,
                       nextHandle, uiStep, startedAt, stopped, stopEmitted,
                       sentinels, lastDelivery, starts,
                   positionAtStop, startIgnored>>
        /\ UNCHANGED outsideEngine

\* stopPlayback (part_003:187-195)
StopPlayback ==
    /\ intervals' = IF schedulerInterval # 0
                    THEN {t \in intervals : t.id # schedulerInterval}
                    ELSE intervals
    /\ schedulerInterval' = 0
    /\ isPlaying' = FALSE
    /\ engineCurrentStep' = -1
    /\ uiStep' = IF stepCallback THEN -1 ELSE uiStep
    /\ lastDelivery' = IF stepCallback
                       THEN [kind |-> "stop", s |-> -1]
                       ELSE lastDelivery
    /\ stopped' = TRUE
    /\ stopEmitted' = stepCallback
    /\ sentinels' = IF stepCallback /\ sentinels < 2 THEN sentinels + 1
                    ELSE sentinels
    /\ count' = 0
    /\ tickLog' = << >>
    /\ prev' = << >>
    /\ positionAtStop' = engineCurrentStep
    /\ UNCHANGED startIgnored
    /\ UNCHANGED <<now, engineNextStepTime, stepCallback, timeouts, nextHandle,
                   startedAt, lastTickAt, gapOk, starts>>
    /\ UNCHANGED outsideEngine

\* the setTimeout callback of part_003:171:
\* () => stepCallback?.(currentStep % totalSteps)
EngineFireTimeout ==
    /\ timeouts # << >>
    /\ timeouts[NextTimeout].due <= now
    /\ uiStep' = JsRem(engineCurrentStep, timeouts[NextTimeout].totalSteps)
    /\ lastDelivery' = [kind |-> "timeout", s |-> timeouts[NextTimeout].s]
    /\ timeouts' = Without(timeouts, NextTimeout)
    /\ UNCHANGED <<now, engineVars, intervals, nextHandle,
                   count, tickLog, prev, startedAt, lastTickAt, gapOk, stopped,
                   stopEmitted, sentinels, starts,
                   positionAtStop, startIgnored>>
    /\ UNCHANGED outsideEngine

(***************************************************************************)
(* scheduleStep of scheduler.ts on its own, every step of every track      *)
(* active                                                                  *)
(***************************************************************************)
FullDrums ==
    [kick |-> Hits(StepIndex), snare |-> Hits(StepIndex),
     hat |-> Hits(StepIndex), clap |-> Hits(StepIndex)]

FullSynth == [notes |-> [i \in StepIndex |-> "C3"]]

\* every combination of the mute and solo flags of the five tracks
FlagSettings ==
    { [t \in TrackNames |->
          [muted |-> f[t].muted, solo |-> f[t].solo,
           volume |-> DefaultTrackSettings[t].volume]] :
      f \in [TrackNames -> [muted : BOOLEAN, solo : BOOLEAN]] }

ApplyScheduleStep ==
    /\ mixPlayed = {"none"}
    /\ \E step \in {0, 15} :
        LET calls == ScheduleStep(step, 0,
                         [bpm |-> 120, swing |-> 0,
                          drumPatterns |-> [A |-> FullDrums, B |-> EmptyDrumPattern],
                          synthPatterns |-> [A |-> FullSynth, B |-> EmptySynthPattern],
                          currentPattern |-> "A",
                          trackSettings |-> mixSettings,
                          synthParams |-> DefaultSynthParams])
        IN  mixPlayed' = {calls[i].inst : i \in 1 .. Len(calls)}
    /\ UNCHANGED <<page, now, moduleVars, engineVars, componentVars, hostVars,
                   uiStep, mixSettings, exportVars, historyVars>>

(***************************************************************************)
(* The two components: their React state at mount                          *)
(***************************************************************************)
\* drumPresets.ts 'Lofi Chill', synthPresets.ts 'Warm Bass'
LofiChill ==
    [kick  |-> Hits({0, 6, 10}),
     snare |-> Hits({4, 12}),
     hat   |-> Hits({0, 2, 4, 6, 8, 10, 12, 14}),
     clap  |-> Hits({})]

WarmBass ==
    [notes |-> [i \in StepIndex |->
                   IF i \in {0, 4, 8, 14} THEN "C3"
                   ELSE IF i = 7 THEN "G3"
                   ELSE IF i = 12 THEN "A#2"
                   ELSE NoNote]]

WarmBassParams == [volume |-> 60]

\* the useState initial values of LoopWorkstation (LoopWorkstation.tsx:48-73)
InitialWorkstation ==
    [isPlaying |-> FALSE, bpm |-> 85, swing |-> 15, currentPattern |-> "A",
     drumPatterns |-> [A |-> LofiChill, B |-> EmptyDrumPattern],
     synthPatterns |-> [A |-> WarmBass, B |-> EmptySynthPattern],
     trackSettings |-> DefaultTrackSettings,
     synthParams |-> WarmBassParams]

\* createDefaultProject (part_003:63-83): four empty tracks at 140 bpm
CreateDefaultProject ==
    [bpm |-> 140, swing |-> 0, stepsPerBar |-> 16, bars |-> 1,
     tracks |-> << CreateTrack("808-kick", 16), CreateTrack("closed-hat", 16),
                   CreateTrack("snare", 16), CreateTrack("clap", 16) >>]

\* the useState initial values of BeatMaker
InitialBeatMaker == [isPlaying |-> FALSE, project |-> CreateDefaultProject]

(***************************************************************************)
(* BeatMaker.tsx: the edit handlers (lines 83-114), each                   *)
(* setProject(prev => operation(prev, ...))                                *)
(***************************************************************************)
SetProject(project) ==
    /\ beatMaker' = [beatMaker EXCEPT !.project = project]
    /\ edits' = edits + 1
    /\ UNCHANGED <<page, now, moduleVars, engineVars, workstation, audioContext,
                   hostVars, uiStep, offlineVars, historyVars>>

HandleAddTrack(instrumentId) ==
    SetProject(AddTrack(beatMaker.project, instrumentId))

HandleRemoveTrack(trackId) ==
    SetProject(RemoveTrack(beatMaker.project, trackId))

HandleDuplicateTrack(trackId) ==
    SetProject(DuplicateTrack(beatMaker.project, trackId))

HandleUpdateTrack(trackId, updates) ==
    SetProject(UpdateTrack(beatMaker.project, trackId, updates))

HandleToggleStep(trackId, stepIndex) ==
    SetProject(ToggleStep(beatMaker.project, trackId, stepIndex))

HandleSetNote(trackId, stepIndex, note) ==
    SetProject(SetStepNote(beatMaker.project, trackId, stepIndex, note))

HandleSetVelocity(trackId, stepIndex, velocity) ==
    SetProject(SetStepVelocity(beatMaker.project, trackId, stepIndex, velocity))

HandleClearTrack(trackId) ==
    SetProject(ClearTrack(beatMaker.project, trackId))

\* the arguments the edit handlers are called with: the first track, the
\* last one and an id no track carries; the first and the last step
EditTrackIds ==
    {1, Len(beatMaker.project.tracks), Len(beatMaker.project.tracks) + 1}

EditSteps == {0, 15}
EditNotes == {"C2", NoNote}
EditVelocities == {0}
AddInstruments == {"808-bass"}
TrackUpdates == {[muted |-> TRUE], [solo |-> TRUE], [volume |-> 50]}

(***************************************************************************)
(* BeatMaker.tsx: transport handlers and the effect on project.bpm         *)
(***************************************************************************)
\* handlePlay (BeatMaker.tsx:61-66): startPlayback receives the project of
\* the current render
BeatMakerHandlePlay ==
    /\ audioContext' = ResumeAudioContext
    /\ beatMaker' = [beatMaker EXCEPT !.isPlaying = TRUE]
    /\ IF isPlaying
       THEN UNCHANGED <<engineVars, hostVars, uiStep, historyVars>>
       ELSE /\ isPlaying' = TRUE
            /\ engineCurrentStep' = 0
            /\ engineNextStepTime' = now + ENGINE_LEAD_IN
            /\ intervals' = intervals \cup {[id |-> nextHandle,
                                              c |-> beatMaker.project]}
            /\ schedulerInterval' = nextHandle
            /\ nextHandle' = nextHandle + 1
            /\ starts' = starts + 1
            /\ count' = 0
            /\ tickLog' = << >>
            /\ prev' = << >>
            /\ startedAt' = now
            /\ lastTickAt' = now
            /\ gapOk' = TRUE
            /\ stopped' = FALSE
            /\ stopEmitted' = FALSE
            /\ sentinels' = 0
            /\ UNCHANGED <<stepCallback, timeouts, uiStep, lastDelivery,
                           positionAtStop, startIgnored>>
    /\ UNCHANGED <<page, now, moduleVars, workstation, edits, offlineVars>>

\* handleStop (BeatMaker.tsx:68-72)
BeatMakerHandleStop ==
    /\ intervals' = IF schedulerInterval # 0
                    THEN {t \in intervals : t.id # schedulerInterval}
                    ELSE intervals
    /\ schedulerInterval' = 0
    /\ isPlaying' = FALSE
    /\ engineCurrentStep' = -1
    /\ beatMaker' = [beatMaker EXCEPT !.isPlaying = FALSE]
    /\ uiStep' = -1
    /\ lastDelivery' = IF stepCallback
                       THEN [kind |-> "stop", s |-> -1]
                       ELSE lastDelivery
    /\ stopped' = TRUE
    /\ stopEmitted' = stepCallback
    /\ sentinels' = IF stepCallback /\ sentinels < 2 THEN sentinels + 1
                    ELSE sentinels
    /\ positionAtStop' = engineCurrentStep
    /\ UNCHANGED startIgnored
    /\ count' = 0
    /\ tickLog' = << >>
    /\ prev' = << >>
    /\ UNCHANGED <<page, now, moduleVars, engineNextStepTime, stepCallback,
                   workstation, audioContext, edits, timeouts, nextHandle,
                   offlineVars, startedAt, lastTickAt, gapOk, starts>>

\* handlePlayStop (BeatMaker.tsx:74-80), the play button and the space key
BeatMakerHandlePlayStop ==
    IF beatMaker.isPlaying THEN BeatMakerHandleStop ELSE BeatMakerHandlePlay

\* setProject followed by the effect on [project.bpm] (BeatMaker.tsx:52-58):
\* when the tempo changed while playing, stopPlayback() and then
\* startPlayback(project) with the project of the new render
SetProjectBpm(project) ==
    IF beatMaker.isPlaying /\ project.bpm # beatMaker.project.bpm
    THEN /\ beatMaker' = [beatMaker EXCEPT !.project = project]
         /\ edits' = edits + 1
         /\ intervals' = {t \in intervals : t.id # schedulerInterval}
                             \cup {[id |-> nextHandle, c |-> project]}
         /\ schedulerInterval' = nextHandle
         /\ nextHandle' = nextHandle + 1
         /\ isPlaying' = TRUE
         /\ engineCurrentStep' = 0
         /\ engineNextStepTime' = now + ENGINE_LEAD_IN
         /\ uiStep' = IF stepCallback THEN -1 ELSE uiStep
         /\ lastDelivery' = IF stepCallback
                            THEN [kind |-> "stop", s |-> -1]
                            ELSE lastDelivery
         /\ positionAtStop' = engineCurrentStep
         /\ UNCHANGED startIgnored
         /\ starts' = starts + 1
         /\ count' = 0
         /\ tickLog' = << >>
         /\ prev' = << >>
         /\ startedAt' = now
         /\ lastTickAt' = now
         /\ gapOk' = TRUE
         /\ stopped' = FALSE
         /\ stopEmitted' = FALSE
         /\ sentinels' = 0
         /\ UNCHANGED <<page, now, moduleVars, stepCallback, workstation,
                        audioContext, timeouts, offlineVars>>
    ELSE SetProject(project)

\* handleBpmChange (BeatMaker.tsx:121-123)
HandleBpmChange(bpm) ==
    SetProjectBpm([beatMaker.project EXCEPT !.bpm = Max(60, Min(200, bpm))])

\* handleSwingChange (BeatMaker.tsx:125-127)
HandleSwingChange(swing) ==
    SetProject([beatMaker.project EXCEPT !.swing = swing])

\* the tempi the slider is moved to, one of them past its end
BeatMakerBpms == {200, 250}

(***************************************************************************)
(* LoopWorkstation.tsx: transport handlers, the restart effect and the     *)
(* handlers that change what the effect depends on                         *)
(***************************************************************************)
\* the arguments handlePlay and the restart effect hand to startScheduler:
\* bpm, swing, drumPatterns, synthPatterns, currentPattern, trackSettings,
\* synthParams of the current render
ClosureOf(w) == [f \in DOMAIN w \ {"isPlaying"} |-> w[f]]

\* the live interval keeps running with new arguments, its position and the
\* time of its next step untouched
RestartEffectInPlace(c) ==
    /\ intervals' = {[id |-> t.id, c |-> c] : t \in intervals}
    /\ UNCHANGED <<page, now, moduleVars, engineVars, beatMaker, audioContext,
                   timeouts, nextHandle, uiStep, offlineVars, historyVars>>

\* the effect of LoopWorkstation.tsx:150-163 while isPlaying:
\* stopScheduler() and then startScheduler(...) with the values of the
\* new render
RestartEffect(c) ==
    /\ intervals' = (IF schedulerTimer # 0
                     THEN {t \in intervals : t.id # schedulerTimer}
                     ELSE intervals) \cup {[id |-> nextHandle, c |-> c]}
    /\ schedulerTimer' = nextHandle
    /\ nextHandle' = nextHandle + 1
    /\ audioContext' = ResumeAudioContext
    /\ nextStepTime' = now + LEAD_IN
    /\ currentStep' = 0
    /\ lastScheduledStep' = -1
    /\ uiStep' = IF onStepChange THEN -1 ELSE uiStep
    /\ lastDelivery' = IF onStepChange
                       THEN [kind |-> "stop", s |-> -1]
                       ELSE lastDelivery
    /\ positionAtStop' = currentStep
    /\ UNCHANGED startIgnored
    /\ starts' = starts + 1
    /\ count' = 0
    /\ tickLog' = << >>
    /\ prev' = << >>
    /\ startedAt' = now
    /\ lastTickAt' = now
    /\ gapOk' = TRUE
    /\ stopped' = FALSE
    /\ stopEmitted' = FALSE
    /\ sentinels' = 0
    /\ UNCHANGED <<page, now, onStepChange, engineVars, beatMaker, timeouts,
                   offlineVars>>

\* a state setter called with w's value and the effect that follows the
\* render: the effect runs when playing and a dependency changed (a new
\* number or string, or any new object)
SetWorkstation(w, changed) ==
    /\ workstation' = w
    /\ edits' = edits + 1
    /\ IF workstation.isPlaying /\ changed
       THEN RestartEffect(ClosureOf(w))
       ELSE UNCHANGED <<page, now, moduleVars, engineVars, beatMaker,
                        audioContext, hostVars, uiStep, offlineVars, historyVars>>

\* handlePlay (LoopWorkstation.tsx:119-131) and the effect that follows
\* setIsPlaying(true): startScheduler, then stopScheduler and startScheduler
\* again with the same values
HandlePlay ==
    /\ workstation' = [workstation EXCEPT !.isPlaying = TRUE]
    /\ audioContext' = ResumeAudioContext
    /\ intervals' = intervals \cup {[id |-> nextHandle + 1,
                                      c |-> ClosureOf(workstation)]}
    /\ schedulerTimer' = nextHandle + 1
    /\ nextHandle' = nextHandle + 2
    /\ nextStepTime' = now + LEAD_IN
    /\ currentStep' = 0
    /\ lastScheduledStep' = -1
    /\ uiStep' = IF onStepChange THEN -1 ELSE uiStep
    /\ lastDelivery' = IF onStepChange
                       THEN [kind |-> "stop", s |-> -1]
                       ELSE lastDelivery
    /\ positionAtStop' = 0
    /\ UNCHANGED startIgnored
    /\ starts' = starts + 2
    /\ count' = 0
    /\ tickLog' = << >>
    /\ prev' = << >>
    /\ startedAt' = now
    /\ lastTickAt' = now
    /\ gapOk' = TRUE
    /\ stopped' = FALSE
    /\ stopEmitted' = FALSE
    /\ sentinels' = 0
    /\ UNCHANGED <<page, now, onStepChange, engineVars, beatMaker, edits,
                   timeouts, offlineVars>>

\* handleStop (LoopWorkstation.tsx:134-138); the effect finds isPlaying false
HandleStop ==
    /\ workstation' = [workstation EXCEPT !.isPlaying = FALSE]
    /\ intervals' = IF schedulerTimer # 0
                    THEN {t \in intervals : t.id # schedulerTimer}
                    ELSE intervals
    /\ schedulerTimer' = 0
    /\ currentStep' = 0
    /\ lastScheduledStep' = -1
    /\ uiStep' = -1
    /\ lastDelivery' = IF onStepChange
                       THEN [kind |-> "stop", s |-> -1]
                       ELSE lastDelivery
    /\ positionAtStop' = currentStep
    /\ UNCHANGED startIgnored
    /\ stopped' = TRUE
    /\ stopEmitted' = onStepChange
    /\ sentinels' = IF onStepChange /\ sentinels < 2 THEN sentinels + 1
                    ELSE sentinels
    /\ count' = 0
    /\ tickLog' = << >>
    /\ prev' = << >>
    /\ UNCHANGED <<page, now, nextStepTime, onStepChange, engineVars, beatMaker,
                   audioContext, edits, timeouts, nextHandle, offlineVars,
                   startedAt, lastTickAt, gapOk, starts>>

\* handlePlayStop (LoopWorkstation.tsx:141-147) and the transport button
\* (part_010: onClick = isPlaying ? onStop : onPlay)
HandlePlayStop ==
    IF workstation.isPlaying THEN HandleStop ELSE HandlePlay

\* onBpmChange = setBpm: the slider and the number field of the transport bar
SetBpm(bpm) ==
    SetWorkstation([workstation EXCEPT !.bpm = bpm], bpm # workstation.bpm)

\* handleBpmDelta (LoopWorkstation.tsx:172-174), the arrow keys
HandleBpmDelta(delta) ==
    LET bpm == Max(60, Min(180, workstation.bpm + delta))
    IN  SetWorkstation([workstation EXCEPT !.bpm = bpm], bpm # workstation.bpm)

\* onSwingChange = setSwing
SetSwing(swing) ==
    SetWorkstation([workstation EXCEPT !.swing = swing],
                   swing # workstation.swing)

\* onPatternChange = setCurrentPattern
SetCurrentPattern(pattern) ==
    SetWorkstation([workstation EXCEPT !.currentPattern = pattern],
                   pattern # workstation.currentPattern)

\* handleMuteTrack (LoopWorkstation.tsx:177-186), the digit keys
HandleMuteTrack(trackIndex) ==
    LET tracks == <<"kick", "snare", "hat", "clap", "synth">>
    IN  IF trackIndex + 1 \in DOMAIN tracks
        THEN SetWorkstation(
                 [workstation EXCEPT
                     !.trackSettings[tracks[trackIndex + 1]].muted = ~@],
                 TRUE)
        ELSE UNCHANGED vars

\* handleDrumToggle (LoopWorkstation.tsx:189-197)
HandleDrumToggle(track, step, value) ==
    SetWorkstation(
        [workstation EXCEPT
            !.drumPatterns[workstation.currentPattern][track] =
                [i \in DOMAIN @ |-> IF i = step THEN value ELSE @[i]]],
        TRUE)

\* handleSynthNoteChange (LoopWorkstation.tsx:200-207)
HandleSynthNoteChange(step, note) ==
    SetWorkstation(
        [workstation EXCEPT
            !.synthPatterns[workstation.currentPattern] =
                [notes |-> [i \in DOMAIN @.notes |->
                               IF i = step THEN note ELSE @.notes[i]]]],
        TRUE)

\* handleTrackSettingChange (LoopWorkstation.tsx:210-222)
HandleTrackSettingChange(track, setting, value) ==
    SetWorkstation([workstation EXCEPT !.trackSettings[track][setting] = value],
                   TRUE)

\* handleSynthParamsChange (LoopWorkstation.tsx:225-227)
HandleSynthParamsChange(changes) ==
    SetWorkstation(
        [workstation EXCEPT
            !.synthParams = [f \in DOMAIN @ |->
                                IF f \in DOMAIN changes THEN changes[f] ELSE @[f]]],
        TRUE)

\* importProjectFromJSON (projectStorage.ts:60-80) on the parsed file; a
\* missing field reads as "" or 0, the values `!` and `||` take for missing
Null == [name |-> ""]

ImportProjectFromJSON(parsed) ==
    IF parsed.name = "" \/ ~parsed.patterns
    THEN Null
    ELSE [parsed EXCEPT !.bpm = IF @ = 0 THEN 85 ELSE @,
                        !.currentPattern = IF @ = "" THEN "A" ELSE @]

\* handleLoad (LoopWorkstation.tsx:291-302): every setter is called with the
\* project's value, the tempo as it is
HandleLoad(project) ==
    SetWorkstation(
        [workstation EXCEPT !.bpm = project.bpm, !.swing = project.swing,
                            !.currentPattern = project.currentPattern,
                            !.drumPatterns = project.drumPatterns,
                            !.synthPatterns = project.synthPatterns,
                            !.trackSettings = project.trackSettings,
                            !.synthParams = project.synthParams],
        TRUE)

\* handleImport (LoopWorkstation.tsx:323-331)
HandleImport(parsed) ==
    IF ImportProjectFromJSON(parsed) # Null
    THEN HandleLoad(ImportProjectFromJSON(parsed))
    ELSE UNCHANGED vars

\* the files imported: a project at 300 bpm, one without a tempo and
\* without a pattern bank, one without a name
ProjectFile(name, bpm, currentPattern) ==
    [name |-> name, patterns |-> TRUE, bpm |-> bpm, swing |-> 0,
     currentPattern |-> currentPattern,
     drumPatterns |-> [A |-> BasicDrums, B |-> EmptyDrumPattern],
     synthPatterns |-> [A |-> BasicSynth, B |-> EmptySynthPattern],
     trackSettings |-> DefaultTrackSettings,
     synthParams |-> DefaultSynthParams]

ImportedFiles ==
    { ProjectFile("beat", 300, "A"), ProjectFile("beat", 0, ""),
      ProjectFile("", 120, "A") }

\* the tempi the slider and the number field are set to, the arrow keys'
\* steps with shift held
WorkstationBpms == {60, 180}
BpmDeltas == {-10, 10}

(***************************************************************************)
(* Initial states and next-state relations                                 *)
(***************************************************************************)
InitCore(p, settings, state) ==
    /\ page = p
    /\ now = 0
    /\ schedulerTimer = 0
    /\ nextStepTime = 0
    /\ currentStep = 0
    /\ lastScheduledStep = -1
    /\ onStepChange = FALSE
    /\ schedulerInterval = 0
    /\ engineCurrentStep = -1
    /\ engineNextStepTime = 0
    /\ isPlaying = FALSE
    /\ stepCallback = FALSE
    /\ workstation = InitialWorkstation
    /\ beatMaker = InitialBeatMaker
    /\ audioContext = [state |-> state, resuming |-> FALSE]
    /\ edits = 0
    /\ intervals = {}
    /\ timeouts = << >>
    /\ nextHandle = 1
    /\ uiStep = -1
    /\ mixSettings = settings
    /\ mixPlayed = {"none"}
    /\ count = 0
    /\ tickLog = << >>
    /\ prev = << >>
    /\ startedAt = 0
    /\ lastTickAt = 0
    /\ gapOk = TRUE
    /\ stopped = FALSE
    /\ stopEmitted = FALSE
    /\ sentinels = 0
    /\ lastDelivery = [kind |-> "none", s |-> -1]
    /\ starts = 0
    /\ positionAtStop = -1
    /\ startIgnored = FALSE
    /\ exportJob = [phase |-> "idle"]

\* no buffer has been handed to audioBufferToWav, no pattern to exportToMidi
InitAt(p, settings, state) ==
    /\ InitCore(p, settings, state)
    /\ wav = [phase |-> "idle"]
    /\ midi = [phase |-> "idle"]

InitWith(p, settings) == InitAt(p, settings, "running")

Init == InitWith("workstation", DefaultTrackSettings)

\* scheduler.ts driven through its whole interface, restarts included
Next ==
    \/ SetOnStepChange
    \/ \E c \in StartArgs :
           starts < MaxStarts /\ now <= MaxRestartTime /\ StartScheduler(c)
    \/ \E t \in intervals : Tick(t)
    \/ StopScheduler
    \/ FireTimeout
    \/ (now + SCHEDULE_INTERVAL <= MaxTime /\ Advance)

Spec == Init /\ [][Next]_vars

\* Either page, one playback at the fastest tempo, long enough to pass the
\* end of the pattern twice.
InitLive ==
    \E p \in {"workstation", "beatmaker"} : InitWith(p, DefaultTrackSettings)

NextLive ==
    \/ (page = "workstation" /\ SetOnStepChange)
    \/ \E c \in WrapArgs :
           page = "workstation" /\ starts = 0 /\ StartScheduler(c)
    \/ \E t \in intervals : page = "workstation" /\ Tick(t)
    \/ (page = "workstation" /\ StopScheduler)
    \/ (page = "workstation" /\ FireTimeout)
    \/ (page = "beatmaker" /\ SetOnStepCallback)
    \/ \E project \in EngineArgs :
           page = "beatmaker" /\ (starts = 0 \/ isPlaying) /\ StartPlayback(project)
    \/ \E t \in intervals : page = "beatmaker" /\ EngineTick(t)
    \/ (page = "beatmaker" /\ StopPlayback)
    \/ (page = "beatmaker" /\ EngineFireTimeout)
    \/ (now + SCHEDULE_INTERVAL <= MaxWrapTime /\ Advance)

SpecLive == InitLive /\ [][NextLive]_vars

\* Either module driven through its whole interface, restarts included
NextApi ==
    \/ (page = "workstation" /\ SetOnStepChange)
    \/ \E c \in StartArgs :
           /\ page = "workstation"
           /\ starts < MaxStarts /\ now <= MaxRestartTime
           /\ StartScheduler(c)
    \/ \E t \in intervals : page = "workstation" /\ Tick(t)
    \/ (page = "workstation" /\ StopScheduler)
    \/ (page = "workstation" /\ FireTimeout)
    \/ (page = "beatmaker" /\ SetOnStepCallback)
    \/ \E project \in EngineArgs :
           /\ page = "beatmaker"
           /\ starts < MaxStarts /\ now <= MaxRestartTime
           /\ StartPlayback(project)
    \/ \E t \in intervals : page = "beatmaker" /\ EngineTick(t)
    \/ (page = "beatmaker" /\ StopPlayback)
    \/ (page = "beatmaker" /\ EngineFireTimeout)
    \/ (now + SCHEDULE_INTERVAL <= MaxPlayTime /\ Advance)

SpecApi == InitLive /\ [][NextApi]_vars

\* the Beat Maker edited while it is not playing
InitProject == InitWith("beatmaker", DefaultTrackSettings)

NextProject ==
    \/ \E instrumentId \in AddInstruments :
           edits < MaxEdits /\ HandleAddTrack(instrumentId)
    \/ \E trackId \in EditTrackIds :
           edits < MaxEdits /\ HandleRemoveTrack(trackId)
    \/ \E trackId \in EditTrackIds :
           edits < MaxEdits /\ HandleDuplicateTrack(trackId)
    \/ \E trackId \in EditTrackIds, updates \in TrackUpdates :
           edits < MaxEdits /\ HandleUpdateTrack(trackId, updates)
    \/ \E trackId \in EditTrackIds, stepIndex \in EditSteps :
           edits < MaxEdits /\ HandleToggleStep(trackId, stepIndex)
    \/ \E trackId \in EditTrackIds, stepIndex \in EditSteps, note \in EditNotes :
           edits < MaxEdits /\ HandleSetNote(trackId, stepIndex, note)
    \/ \E trackId \in EditTrackIds, stepIndex \in EditSteps,
          velocity \in EditVelocities :
           edits < MaxEdits /\ HandleSetVelocity(trackId, stepIndex, velocity)
    \/ \E trackId \in EditTrackIds :
           edits < MaxEdits /\ HandleClearTrack(trackId)

SpecProject == InitProject /\ [][NextProject]_vars

\* the Beat Maker played and edited: the mount effect first, then the
\* transport and the edit handlers on the first track and the first step,
\* and the host's timers
NextBeatMaker ==
    \/ SetOnStepCallback
    \/ /\ stepCallback
       /\ (beatMaker.isPlaying \/ starts < MaxStarts)
       /\ BeatMakerHandlePlayStop
    \/ \E bpm \in BeatMakerBpms :
           /\ stepCallback /\ edits < MaxPlayEdits /\ starts < MaxStarts
           /\ HandleBpmChange(bpm)
    \/ \E swing \in SwingSet :
           stepCallback /\ edits < MaxPlayEdits /\ HandleSwingChange(swing)
    \/ \E updates \in TrackUpdates :
           stepCallback /\ edits < MaxPlayEdits /\ HandleUpdateTrack(1, updates)
    \/ (stepCallback /\ edits < MaxPlayEdits /\ HandleToggleStep(1, 0))
    \/ \E note \in EditNotes :
           stepCallback /\ edits < MaxPlayEdits /\ HandleSetNote(1, 0, note)
    \/ \E velocity \in EditVelocities :
           stepCallback /\ edits < MaxPlayEdits /\ HandleSetVelocity(1, 0, velocity)
    \/ \E t \in intervals : EngineTick(t)
    \/ EngineFireTimeout
    \/ (now + SCHEDULE_INTERVAL <= MaxPlayTime /\ Advance)

SpecBeatMaker == InitProject /\ [][NextBeatMaker]_vars

\* the workstation played and changed: the mount effect first, then the
\* transport, the handlers that change what the restart effect depends on,
\* the host's timers and the audio context, which may start suspended
InitWorkstation ==
    \E state \in {"running", "suspended"} :
        InitAt("workstation", DefaultTrackSettings, state)

NextWorkstation ==
    \/ SetOnStepChange
    \/ /\ onStepChange
       /\ (workstation.isPlaying \/ starts + 2 <= MaxPlayStarts)
       /\ HandlePlayStop
    \/ \E bpm \in WorkstationBpms :
           /\ onStepChange /\ edits < MaxPlayEdits /\ starts < MaxPlayStarts
           /\ SetBpm(bpm)
    \/ \E delta \in BpmDeltas :
           /\ onStepChange /\ edits < MaxPlayEdits /\ starts < MaxPlayStarts
           /\ HandleBpmDelta(delta)
    \/ \E swing \in SwingSet :
           /\ onStepChange /\ edits < MaxPlayEdits /\ starts < MaxPlayStarts
           /\ SetSwing(swing)
    \/ \E pattern \in {"A", "B"} :
           /\ onStepChange /\ edits < MaxPlayEdits /\ starts < MaxPlayStarts
           /\ SetCurrentPattern(pattern)
    \/ /\ onStepChange /\ edits < MaxPlayEdits /\ starts < MaxPlayStarts
       /\ HandleMuteTrack(0)
    \/ /\ onStepChange /\ edits < MaxPlayEdits /\ starts < MaxPlayStarts
       /\ HandleDrumToggle("kick", 0, FALSE)
    \/ /\ onStepChange /\ edits < MaxPlayEdits /\ starts < MaxPlayStarts
       /\ HandleSynthNoteChange(0, NoNote)
    \/ /\ onStepChange /\ edits < MaxPlayEdits /\ starts < MaxPlayStarts
       /\ HandleTrackSettingChange("hat", "solo", TRUE)
    \/ /\ onStepChange /\ edits < MaxPlayEdits /\ starts < MaxPlayStarts
       /\ HandleSynthParamsChange([volume |-> 50])
    \/ \E parsed \in ImportedFiles :
           /\ onStepChange /\ edits < MaxPlayEdits /\ starts < MaxPlayStarts
           /\ HandleImport(parsed)
    \/ \E t \in intervals : Tick(t)
    \/ FireTimeout
    \/ ResumeCompletes
    \/ (now + SCHEDULE_INTERVAL <= MaxWorkstationTime /\ Advance)

SpecWorkstation == InitWorkstation /\ [][NextWorkstation]_vars

\* one call of scheduleStep for each combination of the mixer flags
InitMix == \E settings \in FlagSettings : InitWith("workstation", settings)

NextMix == ApplyScheduleStep

SpecMix == InitMix /\ [][NextMix]_vars

(***************************************************************************)
(* Claims about the live schedulers and the exporters                                           *)
(***************************************************************************)

\* C1: the n-th scheduleStep dispatch of a playback carries step index
\* (n - 1) mod 16, whatever the tick times: 0,1,...,15,0,1,... with no repeat
\* and no skip.
StepsInOrder ==
    page = "workstation" =>
        \A i \in 1 .. Len(tickLog) :
            /\ tickLog[i].step = (tickLog[i].n - 1) % 16
            /\ tickLog[i].n = count - Len(tickLog) + i

\* C1 witness: a tick has dispatched the 17th step of a playback, the first
\* of the second pass.
WrapReached ==
    /\ page = "workstation"
    /\ \E i \in 1 .. Len(tickLog) : tickLog[i].n = 17 /\ tickLog[i].step = 0

\* C2: once stopScheduler has returned, nothing is dispatched until the next
\* startScheduler.
StopCancelsEveryTick == stopped => count = 0

\* C3: after stop has delivered the sentinel -1, the listener receives no
\* further value until the next start.
SentinelIsFinal == stopEmitted => uiStep = -1

\* C4: a delayed notification delivers the index of the step it was created
\* for.
NotificationCarriesItsStep ==
    lastDelivery.kind = "timeout" => uiStep = lastDelivery.s

\* C9: in a playback driven by one timer, the calls of the n-th dispatch are
\* those exportToWav makes in iteration (loop, step) = ((n-1) div 16,
\* (n-1) mod 16): same instruments, same volumes, same offset from the first
\* step.
ExportToWavMatchesLive ==
    (~stopped /\ Cardinality(intervals) = 1) =>
        \A i \in 1 .. Len(tickLog) :
            LET r == tickLog[i]
                c == (CHOOSE t \in intervals : TRUE).c
                loops == ((r.n - 1) \div 16) + 1
                offline == ExportToWav(c.bpm, c.drumPatterns[c.currentPattern],
                                       c.synthPatterns[c.currentPattern],
                                       c.trackSettings, c.synthParams, loops)
                offsets(calls, origin) ==
                    [k \in 1 .. Len(calls) |->
                        [inst |-> calls[k].inst, offset |-> calls[k].time - origin,
                         volume |-> calls[k].volume, note |-> calls[k].note,
                         duration |-> calls[k].duration]]
            IN  offsets(r.calls, startedAt + LEAD_IN)
                    = offsets(offline[r.n], EXPORT_OFFSET)

\* C10: while every start-to-tick and tick-to-tick gap has been shorter than
\* the lookahead window, no step is dispatched with its audio time already
\* behind the audio clock.
NoEventInThePast ==
    gapOk => \A i \in 1 .. Len(tickLog) : tickLog[i].at <= tickLog[i].time

\* C5: in both live schedulers a step is dispatched at nextStepTime +
\* swingOffset, swingOffset = (swing/100) * stepDuration * 0.5 on odd steps and
\* 0 on even ones, stepDuration = 60/bpm/4; nextStepTime advances by
\* stepDuration from one dispatch to the next, so with swing = 0 consecutive
\* steps are stepDuration apart.
SwingTiming ==
    LET log == prev \o tickLog
        stepDuration(r) == (60000 \div r.bpm) \div 4
        swingOffset(r) == IF r.step % 2 = 1
                          THEN (r.swing * stepDuration(r)) \div 200
                          ELSE 0
    IN  /\ \A i \in 1 .. Len(log) :
               /\ log[i].time = log[i].base + swingOffset(log[i])
               /\ \A k \in 1 .. Len(log[i].calls) :
                      log[i].calls[k].time = log[i].time
        /\ \A i \in 1 .. (Len(log) - 1) :
               /\ log[i + 1].base = log[i].base + stepDuration(log[i])
               /\ (log[i].swing = 0 /\ log[i + 1].swing = 0) =>
                      log[i + 1].time = log[i].time + stepDuration(log[i])

\* C5 witness: the multi-track engine has dispatched a sounding odd step of
\* the second pass with swing 40, 15 ms after its unswung time.
SwungStepDispatched ==
    /\ page = "beatmaker"
    /\ \E i \in 1 .. Len(tickLog) :
           /\ tickLog[i].n > 16
           /\ tickLog[i].step % 2 = 1
           /\ tickLog[i].swing = 40
           /\ tickLog[i].calls # << >>
           /\ tickLog[i].time = tickLog[i].base + 15

\* C6: scheduleStep of scheduler.ts plays a track iff, when some track is
\* soloed, the track itself is soloed (muted or not), and, when no track is
\* soloed, the track is not muted.
MuteSoloRule ==
    mixPlayed # {"none"} =>
        \A t \in TrackNames :
            t \in mixPlayed <=>
                IF \E u \in TrackNames : mixSettings[u].solo
                THEN mixSettings[t].solo
                ELSE ~mixSettings[t].muted

\* C6 witness: a track that is both muted and soloed has been played while
\* an unmuted, unsoloed one stayed silent.
MutedSoloPlayed ==
    /\ mixPlayed # {"none"}
    /\ \E t, u \in TrackNames :
           /\ mixSettings[t].muted /\ mixSettings[t].solo /\ t \in mixPlayed
           /\ ~mixSettings[u].muted /\ ~mixSettings[u].solo /\ u \notin mixPlayed

\* C7: in the multi-track engine and in exportBeatToWav, when some track of
\* the project is soloed, an active step of a track is dispatched iff the
\* track is soloed, muted or not.
SoloOverridesMute ==
    page = "beatmaker" =>
        \A i \in 1 .. Len(tickLog) :
            LET r == tickLog[i]
                project == (CHOOSE t \in intervals : t.id = r.h).c
                tracks == project.tracks
                offline == ExportBeatToWav(project, 1)[r.step + 1]
                dispatched(calls, k) == \E j \in 1 .. Len(calls) : calls[j].track = k
            IN  (\E k \in 1 .. Len(tracks) : tracks[k].solo) =>
                    \A k \in 1 .. Len(tracks) :
                        (tracks[k].steps[r.step].active
                         /\ GetInstrument(tracks[k].instrumentId)) =>
                            /\ dispatched(r.calls, k) <=> tracks[k].solo
                            /\ dispatched(offline.calls, k) <=> tracks[k].solo

\* C8: the n-th dispatch of a playback of the multi-track engine issues the
\* (step, instrumentId, offset from the first step's base time, gain) events
\* that exportBeatToWav issues in its n-th iteration, in the same order, for
\* every n up to loops passes.
ExportBeatMatchesLive ==
    page = "beatmaker" =>
        \A i \in 1 .. Len(tickLog) :
            LET r == tickLog[i]
                project == (CHOOSE t \in intervals : t.id = r.h).c
                loops == ((r.n - 1) \div TotalSteps(project)) + 1
                offline == ExportBeatToWav(project, loops)
                events(step, calls, origin) ==
                    [k \in 1 .. Len(calls) |->
                        [step |-> step, instrumentId |-> calls[k].instrumentId,
                         offset |-> calls[k].time - origin, gain |-> calls[k].gain]]
            IN  events(r.step, r.calls, startedAt + ENGINE_LEAD_IN)
                    = events(offline[r.n].step, offline[r.n].calls,
                             BEAT_EXPORT_OFFSET)

\* C8 witness: the live engine has dispatched the last step of the second
\* pass, and it sounded.
SecondPassDispatched ==
    /\ page = "beatmaker"
    /\ \E i \in 1 .. Len(tickLog) :
           tickLog[i].n = 32 /\ tickLog[i].step = 15 /\ tickLog[i].calls # << >>

(***************************************************************************)
(* Claims about the project operations                                     *)
(***************************************************************************)

\* C17: after any sequence of toggleStep, setStepNote, setStepVelocity and
\* clearTrack, every step of the project that carries a note is active.
NoteImpliesActive ==
    \A k \in 1 .. Len(beatMaker.project.tracks) :
        \A i \in DOMAIN beatMaker.project.tracks[k].steps :
            beatMaker.project.tracks[k].steps[i].note # NoNote =>
                beatMaker.project.tracks[k].steps[i].active

TrackLength ==
    \A k \in 1 .. Len(beatMaker.project.tracks) :
        DOMAIN beatMaker.project.tracks[k].steps
            = 0 .. (TotalSteps(beatMaker.project) - 1)

\* C19 witness: three operations were applied, a track was added and the
\* added track duplicated.
TracksAddedAndDuplicated ==
    /\ edits = 3
    /\ Len(beatMaker.project.tracks) = 6
    /\ beatMaker.project.tracks[5].instrumentId = "808-bass"
    /\ beatMaker.project.tracks[6].instrumentId = "808-bass"

(***************************************************************************)
(* Claims about starting and stopping                                      *)
(***************************************************************************)

\* C13: whatever starts, ticks and stops came before, the first step
\* dispatched after a start is step 0, and its time is the clock time read at
\* that start plus the lead-in of its module.
FirstStepAfterStart ==
    \A i \in 1 .. Len(tickLog) :
        (tickLog[i].n = 1 /\ ~stopped) =>
            /\ tickLog[i].step = 0
            /\ tickLog[i].time = tickLog[i].base
            /\ tickLog[i].base = startedAt + (IF page = "workstation"
                                              THEN LEAD_IN ELSE ENGINE_LEAD_IN)

\* C13 witness: the first dispatch of a second playback, started after a stop
\* that found the first one past step 0.
RestartedFromLaterStep ==
    /\ starts = 2
    /\ positionAtStop > 0
    /\ ~stopped
    /\ Len(tickLog) > 0
    /\ tickLog[1].n = 1

\* C14: once stopScheduler has returned after a playback, and until the next
\* startScheduler, the step index getCurrentStep returns is the sentinel -1.
StoppedStepIsSentinel ==
    (page = "workstation" /\ starts > 0 /\ stopped) => currentStep = -1

\* C15: a second stop with no start in between has no observable effect:
\* between two starts the listener is called with the stop sentinel at most
\* once.
StopIsIdempotent == sentinels < 2

(***************************************************************************)
(* Claims about the components                                             *)
(***************************************************************************)

\* C11: while the Beat Maker plays, every step the scheduler dispatches is
\* decided from the project as edited so far: its events and their time are
\* those scheduleStep yields for the project of the component at that tick.
EditsReachNextTick ==
    [][count' > count =>
          \A i \in 1 .. Len(tickLog') :
              /\ tickLog'[i].calls
                     = TrackScheduleStep(beatMaker.project, tickLog'[i].step,
                                         tickLog'[i].base)
              /\ tickLog'[i].time
                     = TrackScheduledTime(beatMaker.project, tickLog'[i].step,
                                          tickLog'[i].base)]_vars

NoStepWhileSuspended ==
    [][count' > count => audioContext.state = "running"]_vars

\* C20: the tempo of every live scheduler of the workstation lies in
\* [60, 200].
BpmInRange ==
    \A t \in intervals : 60 <= t.c.bpm /\ t.c.bpm <= 200

(***************************************************************************)
(* Claims about the tick timer of trackEngine                              *)
(***************************************************************************)

\* C30: in trackEngine at most one tick timer exists, and it is the one
\* stopPlayback clears: after a stop no timer is left and no step is
\* dispatched; a startPlayback that finds playback running changes neither
\* the timers nor the position, the time of the next step or the project
\* the live timer holds.
SingleEngineTimer ==
    [][page = "beatmaker" =>
          /\ Cardinality(intervals') <= 1
          /\ \A t \in intervals' : isPlaying' /\ t.id = schedulerInterval'
          /\ stopped' => intervals' = {}
          /\ count' > count => ~stopped
          /\ (isPlaying /\ starts' = starts /\ startIgnored' /\ ~startIgnored)
             => UNCHANGED <<intervals, schedulerInterval, nextHandle,
                            engineCurrentStep, engineNextStepTime, isPlaying>>
      ]_vars

\* C30 witness: startPlayback was called while playing, the playback went on
\* past step 0 and was stopped by one stopPlayback.
IgnoredStartThenStop ==
    /\ page = "beatmaker"
    /\ startIgnored
    /\ stopped
    /\ positionAtStop > 0

(***************************************************************************)
(* Claims about the gain and the timing of the dispatches                  *)
(***************************************************************************)

\* C28: every instrument.play call of the last tick of trackEngine was made
\* with the track gain set to track.volume * step.velocity (in 1/10000), a
\* velocity of 0 included.
GainIsVolumeTimesVelocity ==
    page = "beatmaker" =>
        \A k \in 1 .. Len(tickLog) : \A t \in intervals :
            t.id = tickLog[k].h =>
                \A j \in 1 .. Len(tickLog[k].calls) :
                    LET call == tickLog[k].calls[j]
                    IN  call.gain = t.c.tracks[call.track].volume * call.velocity

\* the time of the next step of the module the page plays with
LiveNextStepTime ==
    IF page = "workstation" THEN nextStepTime ELSE engineNextStepTime

\* C27: a tick dispatches the steps whose time is below the tick's time +
\* LOOKAHEAD and no other: when it returns the next step is due at or after
\* tickTime + LOOKAHEAD and the step before it was due earlier; every step
\* it dispatched was due before tickTime + LOOKAHEAD and not before the
\* next step time the tick found, and was given an audio time less than
\* LOOKAHEAD + one stepDuration after the audio clock.  (LOOKAHEAD and
\* SCHEDULE_AHEAD_TIME are both 100 ms.)
TickFillsLookahead ==
    [][(/\ starts' = starts
        /\ \/ tickLog' # tickLog /\ tickLog' # << >>
           \/ lastTickAt' # lastTickAt) =>
          /\ LiveNextStepTime' >= now + LOOKAHEAD
          /\ \A k \in 1 .. Len(tickLog') :
                LET r == tickLog'[k]
                IN  /\ r.at = now
                    /\ r.base >= LiveNextStepTime
                    /\ r.base < now + LOOKAHEAD
                    /\ r.base < LiveNextStepTime'
                    /\ r.time - now < LOOKAHEAD + StepDuration(r.bpm)
          /\ tickLog' # << >> =>
                LET last == tickLog'[Len(tickLog')]
                IN  LiveNextStepTime' = last.base + StepDuration(last.bpm)
      ]_vars

\* C27 witness: a tick that came late and dispatched two steps, the second
\* of them a swung one.
LateTickDispatchedTwo ==
    /\ Len(tickLog) >= 2
    /\ tickLog[2].time > tickLog[2].base
    /\ LiveNextStepTime >= lastTickAt + LOOKAHEAD

(***************************************************************************)
(* One playback of either module with the tempos and swings at the ends    *)
(* of their ranges                                                         *)
(***************************************************************************)
MaxSwingTime == 600

\* the swing knobs go from 0 to 60 (part_010:280-284, BeatMaker.tsx)
SwingRange == {0, 30, 60}

\* the slowest tempo of the transports, and a faster one than either allows
\* (a loaded project's tempo is not clamped)
SwingTempos == {60, 300}

SwingArgs ==
    { Closure(bpm, swing, DefaultTrackSettings) :
          bpm \in SwingTempos, swing \in SwingRange }

SwingProjects ==
    { Project(bpm, swing, DemoTracks) : bpm \in SwingTempos, swing \in SwingRange }

NextSwing ==
    \/ \E c \in SwingArgs :
           page = "workstation" /\ starts = 0 /\ StartScheduler(c)
    \/ \E t \in intervals : page = "workstation" /\ Tick(t)
    \/ \E project \in SwingProjects :
           page = "beatmaker" /\ starts = 0 /\ StartPlayback(project)
    \/ \E t \in intervals : page = "beatmaker" /\ EngineTick(t)
    \/ (now + SCHEDULE_INTERVAL <= MaxSwingTime /\ Advance)

SpecSwing == InitLive /\ [][NextSwing]_vars

\* C29: of two successive dispatches of one playback the later one has the
\* later audio time, and a swung odd step keeps its audio time before the
\* unswung time of the step after it.
SwingKeepsOrder ==
    LET log == prev \o tickLog
    IN  \A i \in 1 .. (Len(log) - 1) :
            /\ log[i + 1].n = log[i].n + 1
            /\ log[i].time < log[i + 1].time
            /\ log[i].time < log[i + 1].base

\* C29 witness: an odd step dispatched with swing 60, after its time, and
\* the even step after it dispatched too.
FullSwingDispatched ==
    LET log == prev \o tickLog
    IN  \E i \in 1 .. (Len(log) - 1) :
            /\ log[i].swing = 60
            /\ log[i].step % 2 = 1
            /\ log[i].time > log[i].base
            /\ log[i + 1].step = log[i].step + 1

(***************************************************************************)
(* exportBeatToWav (part_004:211-299) and exportToWav (part_002:232-306)   *)
(* as the export dialogs call them.  The function runs up to its await of  *)
(* startRendering in one step: it schedules every event and reports the    *)
(* progress of each pass; when the rendering resolves it reports 0.8,      *)
(* encodes and reports 1.  Progress values are kept as numerators over     *)
(* 10 * loops, which holds (loop + 1) / loops * 0.5, 0.8 and 1 exactly.    *)
(***************************************************************************)
MaxLoops == 3
MaxExportTime == 200
SAMPLE_RATE == 44100    \* part_004:221, part_002:249
TAIL == 2000            \* "+ 2" seconds of reverb tail

ExportLoops == 1 .. MaxLoops

\* (loop + 1) / loops with the factor 0.5 forgotten
ScheduleProgressWhole(loop, loops) == 10 * (loop + 1)

\* onProgress((loop + 1) / loops * 0.5)
ScheduleProgress(loop, loops) == 5 * (loop + 1)

\* onProgress(0.8), onProgress(1)
RENDERED == 8
ENCODED == 10

\* Math.floor(sampleRate * totalDuration), totalDuration in ms
OfflineLength(bpm, steps) ==
    ((SAMPLE_RATE \div 100) * (StepDuration(bpm) * steps + TAIL)) \div 10

\* the kick, a track whose instrument the registry does not have with steps
\* 0, 1 and 4 active, the hat and the bass
GhostTracks ==
    << DemoTracks[1],
       Track("theremin", StepsOf({0, 1, 4}, "C2", 90), 70, FALSE, FALSE),
       DemoTracks[2], DemoTracks[3] >>

ExportProjects ==
    { Project(200, 40, DemoTracks), Project(200, 40, GhostTracks) }

\* exportBeatToWav(project, loops, setProgress) up to its await
ExportBeatStart(project, loops) ==
    /\ exportJob.phase = "idle"
    /\ exportJob' =
           [phase |-> "rendering", exporter |-> "beatExporter",
            loops |-> loops, tracks |-> project.tracks,
            length |-> OfflineLength(project.bpm, TotalSteps(project) * loops),
            iterations |-> ExportBeatToWav(project, loops),
            progress |-> [l \in 1 .. loops |->
                             [value |-> ScheduleProgress(l - 1, loops),
                              scheduled |-> l * TotalSteps(project),
                              rendered |-> FALSE, encoded |-> FALSE]]]
    /\ UNCHANGED <<page, now, moduleVars, engineVars, componentVars, hostVars,
                   uiStep, mixVars, wav, midi, historyVars>>

\* exportToWav(bpm, ..., loops, onProgress) up to its await
ExportStart(c, loops) ==
    /\ exportJob.phase = "idle"
    /\ exportJob' =
           [phase |-> "rendering", exporter |-> "professionalExporter",
            loops |-> loops, tracks |-> << >>,
            length |-> OfflineLength(c.bpm, 16 * loops),
            iterations |-> ExportToWav(c.bpm, c.drumPatterns[c.currentPattern],
                                       c.synthPatterns[c.currentPattern],
                                       c.trackSettings, c.synthParams, loops),
            progress |-> [l \in 1 .. loops |->
                             [value |-> ScheduleProgress(l - 1, loops),
                              scheduled |-> l * 16,
                              rendered |-> FALSE, encoded |-> FALSE]]]
    /\ UNCHANGED <<page, now, moduleVars, engineVars, componentVars, hostVars,
                   uiStep, mixVars, wav, midi, historyVars>>

\* startRendering resolves: onProgress(0.8), audioBufferToWav, onProgress(1)
RenderingResolves ==
    /\ exportJob.phase = "rendering"
    /\ exportJob' =
           [exportJob EXCEPT
               !.phase = "done",
               !.progress =
                   @ \o << [value |-> RENDERED * exportJob.loops,
                            scheduled |-> Len(exportJob.iterations),
                            rendered |-> TRUE, encoded |-> FALSE],
                           [value |-> ENCODED * exportJob.loops,
                            scheduled |-> Len(exportJob.iterations),
                            rendered |-> TRUE, encoded |-> TRUE] >>]
    /\ UNCHANGED <<page, now, moduleVars, engineVars, componentVars, hostVars,
                   uiStep, mixVars, wav, midi, historyVars>>

\* startRendering rejects: the function throws, the dialog alerts
RenderingRejects ==
    /\ exportJob.phase = "rendering"
    /\ exportJob' = [exportJob EXCEPT !.phase = "failed"]
    /\ UNCHANGED <<page, now, moduleVars, engineVars, componentVars, hostVars,
                   uiStep, mixVars, wav, midi, historyVars>>

\* the dialog's finally block (BeatExportModal.tsx:51-54, part_010:56-59);
\* the next export starts from there
ExportSettled ==
    /\ exportJob.phase \in {"done", "failed"}
    /\ exportJob' = [phase |-> "idle"]
    /\ UNCHANGED <<page, now, moduleVars, engineVars, componentVars, hostVars,
                   uiStep, mixVars, wav, midi, historyVars>>

\* The exports of either dialog, and one playback of trackEngine with the
\* projects that are exported
NextExport ==
    \/ \E project \in ExportProjects, loops \in ExportLoops :
           page = "beatmaker" /\ ExportBeatStart(project, loops)
    \/ \E c \in StartArgs, loops \in ExportLoops :
           page = "workstation" /\ ExportStart(c, loops)
    \/ RenderingResolves
    \/ RenderingRejects
    \/ ExportSettled
    \/ \E project \in ExportProjects :
           page = "beatmaker" /\ starts = 0 /\ StartPlayback(project)
    \/ \E t \in intervals : page = "beatmaker" /\ EngineTick(t)
    \/ (now + SCHEDULE_INTERVAL <= MaxExportTime /\ Advance)

SpecExport == InitLive /\ [][NextExport]_vars

\* C21: the values an export has passed to the progress callback never
\* decrease and lie in [0, 1]; the reports of the scheduling passes, one per
\* pass, come first and before the rendering; the value 1 is reported only
\* with the rendering and the encoding done, and it is the last report of
\* every export that completed.
ProgressIsMonotone ==
    exportJob.phase # "idle" =>
        LET progress == exportJob.progress
            one == 10 * exportJob.loops
        IN  /\ \A i \in 1 .. Len(progress) :
                   /\ progress[i].value >= 0
                   /\ progress[i].value <= one
                   /\ progress[i].value = one => progress[i].encoded
                   /\ progress[i].encoded => progress[i].rendered
                   /\ i <= exportJob.loops =>
                          /\ ~progress[i].rendered
                          /\ progress[i].scheduled * exportJob.loops
                                 = i * Len(exportJob.iterations)
            /\ \A i \in 1 .. (Len(progress) - 1) :
                   progress[i].value <= progress[i + 1].value
            /\ Len(progress) >= exportJob.loops
            /\ exportJob.phase = "done" =>
                   /\ Len(progress) = exportJob.loops + 2
                   /\ progress[Len(progress)].value = one
            /\ exportJob.phase # "done" => Len(progress) = exportJob.loops

\* C21 witness: an export of three passes of the multi-track engine has
\* completed.
ThreeLoopExportDone ==
    /\ exportJob.phase = "done"
    /\ exportJob.exporter = "beatExporter"
    /\ exportJob.loops = 3
    /\ Len(exportJob.progress) = 5

\* the tracks scheduleStep and exportBeatToWav are to play at a step: the
\* audible ones (mute and solo, part_003:119-120) whose step is active
AudibleAt(tracks, step) ==
    LET hasSolo == \E i \in 1 .. Len(tracks) : tracks[i].solo
    IN  {i \in 1 .. Len(tracks) :
            /\ ~tracks[i].muted
            /\ ~(hasSolo /\ ~tracks[i].solo)
            /\ tracks[i].steps[step].active}

\* C24: at every step trackEngine dispatches, live or in exportBeatToWav, a
\* synthesis call is made for exactly the audible active tracks whose
\* instrument the registry has, in track order: none for a track with an
\* unknown instrument, one for every other track of the step; and every
\* step of every pass of the export is visited.
UnknownInstrumentIsSkipped ==
    LET registered(tracks, step) ==
            {i \in AudibleAt(tracks, step) : tracks[i].instrumentId \in INSTRUMENTS}
        exact(calls, tracks, step) ==
            /\ {calls[k].track : k \in 1 .. Len(calls)} = registered(tracks, step)
            /\ \A k \in 1 .. (Len(calls) - 1) : calls[k].track < calls[k + 1].track
    IN  /\ page = "beatmaker" =>
               \A k \in 1 .. Len(tickLog) : \A t \in intervals :
                   t.id = tickLog[k].h =>
                       /\ exact(tickLog[k].calls, t.c.tracks, tickLog[k].step)
                       /\ tickLog[k].n = count - Len(tickLog) + k
        /\ (exportJob.phase # "idle" /\ exportJob.exporter = "beatExporter") =>
               /\ Len(exportJob.iterations) = 16 * exportJob.loops
               /\ \A g \in 1 .. Len(exportJob.iterations) :
                      /\ exportJob.iterations[g].step = (g - 1) % 16
                      /\ exact(exportJob.iterations[g].calls, exportJob.tracks,
                               (g - 1) % 16)

\* C24 witness: the live engine has dispatched step 1, where the track with
\* the unknown instrument is active next to the hat, and gone on to step 2;
\* an export of the same tracks has completed.
GhostTrackPassedOver ==
    /\ page = "beatmaker"
    /\ \E t \in intervals : t.c.tracks = GhostTracks
    /\ Len(tickLog) >= 2
    /\ tickLog[Len(tickLog)].step = 2
    /\ tickLog[Len(tickLog) - 1].calls # << >>
    /\ exportJob.phase = "done"
    /\ exportJob.tracks = GhostTracks

(***************************************************************************)
(* audioBufferToWav (part_004:732-784 in beatExporter, part_002:309-361 in *)
(* professionalExporter, exporter.ts:45-89).  A buffer is its channel      *)
(* count, its sample rate, its length in frames and its first frames, each *)
(* frame a sequence with one sample per channel; a sample is a number in   *)
(* thousandths or NaN.  The file is its 44 header bytes followed by the    *)
(* bytes of those first frames.                                            *)
(***************************************************************************)
MaxFrames == 2

\* setUint16 without its littleEndian argument: high byte first
SetUint16BigEndian(value) == << (value \div 256) % 256, value % 256 >>

\* DataView.setUint16(offset, value, true) and setUint32(offset, value,
\* true): the bytes written, low byte first
SetUint16(value) == << value % 256, (value \div 256) % 256 >>

SetUint32(value) ==
    << value % 256, (value \div 256) % 256,
       (value \div 65536) % 256, (value \div 16777216) % 256 >>

\* writeString(view, offset, str): the char codes of str
WriteString(str) ==
    CASE str = "RIFF" -> << 82, 73, 70, 70 >>
      [] str = "WAVE" -> << 87, 65, 86, 69 >>
      [] str = "fmt " -> << 102, 109, 116, 32 >>
      [] str = "data" -> << 100, 97, 116, 97 >>

Number(milli) == [kind |-> "number", milli |-> milli]
NaN == [kind |-> "NaN", milli |-> 0]

\* the sample passed through without clamping
ClampNone(sample) == sample

\* Math.max(-1, Math.min(1, sample)); both return NaN for NaN
Clamp(sample) ==
    IF sample.kind = "NaN" THEN sample
    ELSE Number(Max(-1000, Min(1000, sample.milli)))

\* sample < 0 ? sample * 0x8000 : sample * 0x7FFF, as [kind, num] over 1000;
\* NaN < 0 is false and NaN * 0x7FFF is NaN
IntSample(sample) ==
    IF sample.kind = "NaN" THEN [kind |-> "NaN", num |-> 0]
    ELSE IF sample.milli < 0
         THEN [kind |-> "number", num |-> sample.milli * 32768]
         ELSE [kind |-> "number", num |-> sample.milli * 32767]

\* DataView.setInt16(offset, value, true): ToInt16 takes NaN to 0, drops the
\* fraction towards zero and reduces modulo 2^16
SetInt16(value) ==
    LET integer == IF value.kind = "NaN" THEN 0
                   ELSE IF value.num >= 0 THEN value.num \div 1000
                   ELSE 0 - ((0 - value.num) \div 1000)
    IN  SetUint16(integer % 65536)

RECURSIVE Flatten(_)
Flatten(seqs) ==
    IF seqs = << >> THEN << >> ELSE Head(seqs) \o Flatten(Tail(seqs))

\* the 44 header bytes; riffSize is totalSize - 8 in beatExporter and
\* 36 + dataLength in the other two
WavHeader(buffer, riffSize, dataSize) ==
    LET numChannels == buffer.numberOfChannels
        sampleRate == buffer.sampleRate
        format == 1
        bitDepth == 16
        bytesPerSample == bitDepth \div 8
        blockAlign == numChannels * bytesPerSample
        byteRate == sampleRate * blockAlign
    IN  WriteString("RIFF") \o SetUint32(riffSize) \o WriteString("WAVE")
        \o WriteString("fmt ") \o SetUint32(16)
        \o SetUint16(format) \o SetUint16(numChannels)
        \o SetUint32(sampleRate) \o SetUint32(byteRate)
        \o SetUint16(blockAlign) \o SetUint16(bitDepth)
        \o WriteString("data") \o SetUint32(dataSize)

\* the interleaving loops: frame by frame, channel by channel
WavData(buffer) ==
    Flatten([i \in 1 .. Len(buffer.frames) |->
                Flatten([channel \in 1 .. buffer.numberOfChannels |->
                            SetInt16(IntSample(Clamp(buffer.frames[i][channel])))])])

\* audioBufferToWav of beatExporter
BeatAudioBufferToWav ==
    /\ wav.phase = "input"
    /\ LET buffer == wav.buffer
           blockAlign == buffer.numberOfChannels * (16 \div 8)
           dataSize == buffer.length * blockAlign
           headerSize == 44
           totalSize == headerSize + dataSize
       IN  wav' = [phase |-> "encoded", buffer |-> buffer, size |-> totalSize,
                   bytes |-> WavHeader(buffer, totalSize - 8, dataSize)
                             \o WavData(buffer)]
    /\ UNCHANGED <<page, now, moduleVars, engineVars, componentVars, hostVars,
                   uiStep, mixVars, exportJob, midi, historyVars>>

\* audioBufferToWav of professionalExporter and of exporter.ts
AudioBufferToWav ==
    /\ wav.phase = "input"
    /\ LET buffer == wav.buffer
           blockAlign == buffer.numberOfChannels * (16 \div 8)
           dataLength == buffer.length * blockAlign
       IN  wav' = [phase |-> "encoded", buffer |-> buffer,
                   size |-> 44 + dataLength,
                   bytes |-> WavHeader(buffer, 36 + dataLength, dataLength)
                             \o WavData(buffer)]
    /\ UNCHANGED <<page, now, moduleVars, engineVars, componentVars, hostVars,
                   uiStep, mixVars, exportJob, midi, historyVars>>

\* sample values around the two clamping points, 0, and beyond them
Samples ==
    << Number(-2000), Number(-1001), Number(-1000), Number(-999), Number(-1),
       Number(0), NaN, Number(1), Number(500), Number(999), Number(1000),
       Number(1001), Number(2000) >>

\* channel data: the samples from one position on, every stride-th
Waveform(start, stride) ==
    [i \in 1 .. MaxFrames |->
        Samples[((start + (i - 1) * stride - 1) % Len(Samples)) + 1]]

Waveforms == { Waveform(start, stride) : start \in 1 .. Len(Samples), stride \in {1, 5} }

\* mono and stereo as the offline contexts render, and the 32 channels an
\* AudioBuffer may have, all carrying the same data
ChannelData(numChannels) ==
    IF numChannels = 1 THEN { << a >> : a \in Waveforms }
    ELSE IF numChannels = 2 THEN { << a, b >> : a, b \in Waveforms }
    ELSE { [c \in 1 .. numChannels |-> a] : a \in Waveforms }

\* frame lengths: none, one, MaxFrames, and the 3.2 s and 66 s that
\* exports of one pass at 200 bpm and of 16 passes at 60 bpm render
Lengths == {0, 1, MaxFrames, OfflineLength(200, 16), OfflineLength(60, 256)}

Buffers ==
    UNION { { [numberOfChannels |-> numChannels, sampleRate |-> sampleRate,
               length |-> length,
               frames |-> [i \in 1 .. Min(length, MaxFrames) |->
                              [c \in 1 .. numChannels |-> data[c][i]]]] :
                  sampleRate \in {8000, SAMPLE_RATE, 96000},
                  length \in Lengths, data \in ChannelData(numChannels) } :
            numChannels \in {1, 2, 32} }

InitWav ==
    \E p \in {"workstation", "beatmaker"} :
        /\ InitCore(p, DefaultTrackSettings, "running")
        /\ midi = [phase |-> "idle"]
        /\ \E buffer \in Buffers : wav = [phase |-> "input", buffer |-> buffer]

NextWav ==
    \/ (page = "beatmaker" /\ BeatAudioBufferToWav)
    \/ (page = "workstation" /\ AudioBufferToWav)

SpecWav == InitWav /\ [][NextWav]_vars

\* DataView.getUint16(offset, true) and getUint32(offset, true) of a file
GetUint16(bytes, offset) == bytes[offset + 1] + 256 * bytes[offset + 2]

GetUint32(bytes, offset) ==
    bytes[offset + 1] + 256 * bytes[offset + 2] + 65536 * bytes[offset + 3]
        + 16777216 * bytes[offset + 4]

\* DataView.getInt16(offset, true)
GetInt16(bytes, offset) ==
    LET u == GetUint16(bytes, offset)
    IN  IF u >= 32768 THEN u - 65536 ELSE u

\* C22: the header of the file audioBufferToWav returns, read back field by
\* field, is RIFF/WAVE/fmt /data with PCM format 1, the channel count and
\* the sample rate of the buffer, 16 bits, blockAlign = channels * 2,
\* byteRate = sampleRate * blockAlign, data size = frames * blockAlign and
\* RIFF size = 36 + data size; the file has 44 + data size bytes.
HeaderDecodes ==
    wav.phase = "encoded" =>
        LET bytes == wav.bytes
            buffer == wav.buffer
            blockAlign == buffer.numberOfChannels * 2
            dataSize == buffer.length * blockAlign
        IN  /\ \A k \in 1 .. Len(bytes) : bytes[k] \in 0 .. 255
            /\ SubSeq(bytes, 1, 4) = << 82, 73, 70, 70 >>
            /\ GetUint32(bytes, 4) = 36 + dataSize
            /\ SubSeq(bytes, 9, 12) = << 87, 65, 86, 69 >>
            /\ SubSeq(bytes, 13, 16) = << 102, 109, 116, 32 >>
            /\ GetUint32(bytes, 16) = 16
            /\ GetUint16(bytes, 20) = 1
            /\ GetUint16(bytes, 22) = buffer.numberOfChannels
            /\ GetUint32(bytes, 24) = buffer.sampleRate
            /\ GetUint32(bytes, 28) = buffer.sampleRate * blockAlign
            /\ GetUint16(bytes, 32) = blockAlign
            /\ GetUint16(bytes, 34) = 16
            /\ SubSeq(bytes, 37, 40) = << 100, 97, 116, 97 >>
            /\ GetUint32(bytes, 40) = dataSize
            /\ wav.size = 44 + dataSize
            /\ Len(bytes) = 44 + Len(buffer.frames) * blockAlign

\* C22 witness: beatExporter has encoded the stereo 44.1 kHz buffer of a
\* 16-pass export at 60 bpm, whose sizes take three bytes.
LongStereoEncoded ==
    /\ wav.phase = "encoded"
    /\ page = "beatmaker"
    /\ wav.buffer.numberOfChannels = 2
    /\ wav.buffer.sampleRate = SAMPLE_RATE
    /\ wav.buffer.length = OfflineLength(60, 256)
    /\ wav.bytes[43] > 0

\* C23: each sample of the data chunk, read back as a signed 16-bit value,
\* lies in -32768 .. 32767, is 32767 for an input of 1 or more and -32768
\* for an input of -1 or less, and of two inputs the larger is not written
\* as the smaller value.
SamplesAreClamped ==
    wav.phase = "encoded" =>
        LET buffer == wav.buffer
            numChannels == buffer.numberOfChannels
            positions == (1 .. Len(buffer.frames)) \X (1 .. numChannels)
            input(q) == buffer.frames[q[1]][q[2]]
            written(q) ==
                GetInt16(wav.bytes, 44 + ((q[1] - 1) * numChannels + (q[2] - 1)) * 2)
        IN  /\ \A q \in positions :
                   /\ written(q) >= -32768
                   /\ written(q) <= 32767
                   /\ input(q).kind = "number" =>
                          /\ input(q).milli >= 1000 => written(q) = 32767
                          /\ input(q).milli <= -1000 => written(q) = -32768
            /\ \A q, r \in positions :
                   (/\ input(q).kind = "number"
                    /\ input(r).kind = "number"
                    /\ input(q).milli <= input(r).milli)
                       => written(q) <= written(r)

\* C23 witness: a file encoded from a buffer with a sample above 1 and a
\* sample below -1.
OverdrivenEncoded ==
    /\ wav.phase = "encoded"
    /\ \E i \in 1 .. Len(wav.buffer.frames) :
           \E c, d \in 1 .. wav.buffer.numberOfChannels :
               /\ wav.buffer.frames[i][c] = Number(2000)
               /\ wav.buffer.frames[i][d] = Number(-1001)

(***************************************************************************)
(* exportToMidi (exporter.ts:151-288): the bytes of the file               *)
(***************************************************************************)
TICKS_PER_BEAT == 480
NOTE_ON == 153          \* 0x99
NOTE_OFF == 137         \* 0x89
NOTE_ON_VELOCITY == 100
META == 255             \* 0xff
END_OF_TRACK == 47      \* 0x2f

\* the low seven bits only
EncodeLowSeven(value) == << value % 128 >>

\* the bytes encodeVariableLength unshifts: the groups above the low one,
\* each with bit 7 set
RECURSIVE Continuation(_)
Continuation(value) ==
    IF value > 0
    THEN Continuation(value \div 128) \o << (value % 128) + 128 >>
    ELSE << >>

\* encodeVariableLength
EncodeVariableLength(value) ==
    Continuation(value \div 128) \o << value % 128 >>

\* createTrackChunk: 'MTrk', the length high byte first, the events
CreateTrackChunk(events) ==
    LET len == Len(events)
    IN  << 77, 84, 114, 107,
           (len \div 16777216) % 256, (len \div 65536) % 256,
           (len \div 256) % 256, len % 256 >> \o events

\* createMidiHeader
CreateMidiHeader(format, numTracks, ticksPerBeat) ==
    << 77, 84, 104, 100, 0, 0, 0, 6, 0, format,
       (numTracks \div 256) % 256, numTracks % 256,
       (ticksPerBeat \div 256) % 256, ticksPerBeat % 256 >>

\* createTempoTrack; Math.round(60000000 / bpm)
CreateTempoTrack(bpm) ==
    LET microsecondsPerBeat == (2 * 60000000 + bpm) \div (2 * bpm)
    IN  CreateTrackChunk(
            << 0, META, 81, 3,
               (microsecondsPerBeat \div 65536) % 256,
               (microsecondsPerBeat \div 256) % 256,
               microsecondsPerBeat % 256,
               0, META, END_OF_TRACK, 0 >>)

\* the loop of createDrumTrack from step i on
RECURSIVE DrumEvents(_, _, _, _, _)
DrumEvents(pattern, i, lastTick, noteNumber, ticksPerStep) ==
    IF i \notin DOMAIN pattern THEN << >>
    ELSE IF pattern[i]
    THEN LET tick == i * ticksPerStep
             delta == tick - lastTick
         IN  EncodeVariableLength(delta) \o << NOTE_ON, noteNumber, NOTE_ON_VELOCITY >>
             \o EncodeVariableLength(ticksPerStep \div 2)
             \o << NOTE_OFF, noteNumber, 0 >>
             \o DrumEvents(pattern, i + 1, tick + ticksPerStep \div 2,
                           noteNumber, ticksPerStep)
    ELSE DrumEvents(pattern, i + 1, lastTick, noteNumber, ticksPerStep)

\* createDrumTrack
CreateDrumTrack(pattern, noteNumber, ticksPerStep) ==
    CreateTrackChunk(DrumEvents(pattern, 0, 0, noteNumber, ticksPerStep)
                     \o << 0, META, END_OF_TRACK, 0 >>)

\* drumMapping[name] || 36
DrumMapping(name) ==
    CASE name = "kick" -> 36
      [] name = "snare" -> 38
      [] name = "hat" -> 42
      [] name = "clap" -> 39
      [] OTHER -> 36

\* exportToMidi(drumPattern, synthPattern, bpm): the header, the tempo track
\* and one track per drum in the order of Object.entries
ExportToMidi ==
    /\ midi.phase = "input"
    /\ LET ticksPerBeat == TICKS_PER_BEAT
           ticksPerStep == ticksPerBeat \div 4
           header == CreateMidiHeader(1, 5, ticksPerBeat)
           tracks == << CreateTempoTrack(midi.bpm) >>
                     \o [d \in 1 .. Len(DrumTypes) |->
                            CreateDrumTrack(midi.drumPattern[DrumTypes[d]],
                                            DrumMapping(DrumTypes[d]),
                                            ticksPerStep)]
       IN  midi' = [phase |-> "exported", drumPattern |-> midi.drumPattern,
                    bpm |-> midi.bpm, tracks |-> tracks,
                    file |-> header \o Flatten(tracks)]
    /\ UNCHANGED <<page, now, moduleVars, engineVars, componentVars, hostVars,
                   uiStep, mixVars, exportJob, wav, historyVars>>

\* rows of a drum pattern: empty, the first step, the last step, adjacent
\* steps, the snare of the basic pattern, every step
MidiRows ==
    { Hits({}), Hits({0}), Hits({15}), Hits({0, 1}), Hits({4, 12}),
      Hits(StepIndex) }

MidiPatterns ==
    { [kick |-> k, snare |-> s, hat |-> h, clap |-> c] :
          k \in MidiRows, s \in MidiRows, h \in MidiRows, c \in MidiRows }

InitMidi ==
    /\ InitCore("workstation", DefaultTrackSettings, "running")
    /\ wav = [phase |-> "idle"]
    /\ \E drumPattern \in MidiPatterns, bpm \in {85, 200} :
           midi = [phase |-> "input", drumPattern |-> drumPattern, bpm |-> bpm]

NextMidi == ExportToMidi

SpecMidi == InitMidi /\ [][NextMidi]_vars

\* a variable-length quantity read from position pos: its value and the
\* position after it
RECURSIVE ReadVariableLength(_, _, _)
ReadVariableLength(bytes, pos, acc) ==
    IF pos > Len(bytes) THEN [value |-> acc, next |-> pos]
    ELSE IF bytes[pos] >= 128
    THEN ReadVariableLength(bytes, pos + 1, acc * 128 + (bytes[pos] - 128))
    ELSE [value |-> acc * 128 + bytes[pos], next |-> pos + 1]

\* the events of a track read as a MIDI file reader reads them: a delta
\* time, then a meta event (type, length, data) or a channel message of two
\* data bytes; each event with the sum of the delta times up to it
RECURSIVE ReadEvents(_, _, _)
ReadEvents(bytes, pos, tick) ==
    IF pos > Len(bytes) THEN << >>
    ELSE LET delta == ReadVariableLength(bytes, pos, 0)
             at == tick + delta.value
             p == delta.next
         IN  IF p + 2 > Len(bytes)
             THEN << [tick |-> at, status |-> 0, data1 |-> 0, data2 |-> 0] >>
             ELSE IF bytes[p] = META
             THEN << [tick |-> at, status |-> META, data1 |-> bytes[p + 1],
                      data2 |-> bytes[p + 2]] >>
                  \o ReadEvents(bytes, p + 3 + bytes[p + 2], at)
             ELSE << [tick |-> at, status |-> bytes[p], data1 |-> bytes[p + 1],
                      data2 |-> bytes[p + 2]] >>
                  \o ReadEvents(bytes, p + 3, at)

\* C25: each drum track of the file, read back event by event, holds for
\* each active step i of its row, in increasing order, a Note-On 0x99 of the
\* mapped note at tick i * 120 and then its Note-Off 0x89 at tick
\* i * 120 + 60, nothing for an inactive step, and the end of track; the
\* chunk's length field counts its event bytes.
DrumTrackEvents ==
    midi.phase = "exported" =>
        \A d \in 1 .. Len(DrumTypes) :
            LET chunk == midi.tracks[d + 1]
                row == midi.drumPattern[DrumTypes[d]]
                note == DrumMapping(DrumTypes[d])
                active == SelectSeq([k \in 1 .. 16 |-> k - 1], LAMBDA i : row[i])
                events == ReadEvents(SubSeq(chunk, 9, Len(chunk)), 1, 0)
            IN  /\ SubSeq(chunk, 1, 4) = << 77, 84, 114, 107 >>
                /\ chunk[5] = 0 /\ chunk[6] = 0
                /\ chunk[7] * 256 + chunk[8] = Len(chunk) - 8
                /\ \A k \in 1 .. Len(chunk) : chunk[k] \in 0 .. 255
                /\ Len(events) = 2 * Len(active) + 1
                /\ \A k \in 1 .. Len(active) :
                       /\ events[2 * k - 1]
                              = [tick |-> active[k] * 120, status |-> 153,
                                 data1 |-> note, data2 |-> 100]
                       /\ events[2 * k]
                              = [tick |-> active[k] * 120 + 60, status |-> 137,
                                 data1 |-> note, data2 |-> 0]
                /\ events[Len(events)].status = 255
                /\ events[Len(events)].data1 = 47

\* C25 witness: a file with a kick on the last step only, whose delta time
\* of 1800 ticks takes two bytes, and a hat on every step.
LateKickExported ==
    /\ midi.phase = "exported"
    /\ midi.drumPattern.kick = Hits({15})
    /\ midi.drumPattern.hat = Hits(StepIndex)
    /\ SubSeq(midi.tracks[2], 9, 10) = << 142, 8 >>

(***************************************************************************)
(* The tick of scheduler.ts with the tempo of a loaded project.  With a    *)
(* step duration of 0 or less the while loop of the tick has no exit: the  *)
(* callback never returns and nothing else runs on the page.  Such a tick  *)
(* is followed one iteration of the loop at a time.                        *)
(***************************************************************************)
MaxTempoTime == 150
MaxSpin == 4

\* project files: tempo -120, tempo 300 and no tempo
TempoFiles ==
    { ProjectFile("beat", -120, "A"), ProjectFile("beat", 300, "A"),
      ProjectFile("beat", 0, "A") }

\* a tick has entered a loop that has no exit
Spinning ==
    /\ count > 0
    /\ \E t \in intervals : StepDuration(t.c.bpm) <= 0

\* one iteration of the while loop of the tick (part_004:129-156)
TickIteration(t) ==
    LET c == t.c
        stepDuration == StepDuration(c.bpm)
        swingOffset == GetSwingOffset(currentStep, c.swing, stepDuration)
        scheduledTime == nextStepTime + swingOffset
        fresh == currentStep # lastScheduledStep
        rec == [h |-> t.id, n |-> count + 1, step |-> currentStep,
                base |-> nextStepTime, time |-> scheduledTime, at |-> now,
                bpm |-> c.bpm, swing |-> c.swing,
                calls |-> ScheduleStep(currentStep, scheduledTime, c)]
    IN  /\ stepDuration <= 0
        /\ nextStepTime < now + LOOKAHEAD
        /\ count < MaxSpin
        /\ nextStepTime' = nextStepTime + stepDuration
        /\ currentStep' = NextStepIndex(currentStep)
        /\ lastScheduledStep' = IF fresh THEN currentStep ELSE lastScheduledStep
        /\ timeouts' = IF onStepChange /\ fresh
                       THEN Append(timeouts, Notification(rec))
                       ELSE timeouts
        /\ count' = count + 1
        /\ tickLog' = IF fresh THEN Append(tickLog, rec) ELSE tickLog
        /\ lastTickAt' = now
        /\ UNCHANGED <<now, schedulerTimer, onStepChange, intervals, nextHandle,
                       uiStep, prev, startedAt, gapOk, stopped, stopEmitted,
                       sentinels, lastDelivery, starts, positionAtStop,
                       startIgnored>>
        /\ UNCHANGED outsideScheduler

NextTempo ==
    \/ \E parsed \in TempoFiles :
           ~workstation.isPlaying /\ edits = 0 /\ HandleImport(parsed)
    \/ (~workstation.isPlaying /\ starts = 0 /\ HandlePlay)
    \/ \E t \in intervals : StepDuration(t.c.bpm) > 0 /\ Tick(t)
    \/ \E t \in intervals : TickIteration(t)
    \/ (~Spinning /\ now + SCHEDULE_INTERVAL <= MaxTempoTime /\ Advance)

SpecTempo == Init /\ [][NextTempo]_vars

\* C26: whenever a playback dispatches, the scheduler that does it has a
\* step duration above 0, the time of the next step has moved forward, and
\* it is at the tick's time + LOOKAHEAD or later: the tick has returned.
TickTerminates ==
    [][(starts' = starts /\ count' > count) =>
          /\ \A t \in intervals : StepDuration(t.c.bpm) > 0
          /\ LiveNextStepTime' > LiveNextStepTime
          /\ LiveNextStepTime' >= now + LOOKAHEAD
      ]_vars
====
